---- MODULE Spec2Model ----
(***************************************************************************)
(* The recruiter-workflow service (src/unnamed/part_000): the Request      *)
(* Store, the create / get / respond handlers and the chat-session call.   *)
(* Every inbound HTTP request runs on a goroutine of its own; a goroutine  *)
(* is a handler h with a program counter pc[h] and locals l[h].  A step is *)
(* a stretch of handler code between two accesses to shared state (the     *)
(* store lock, the wall clock, the chat service).                          *)
(*                                                                         *)
(* The recruiter-search service (src/services/recruiter-search): the       *)
(* Candidate Index and the /index and /search handlers, modelled the same  *)
(* way with positions ipc[h] and locals il[h].  The two services are       *)
(* separate processes: Spec runs the workflow service, SpecIndex the       *)
(* search service, SpecStores both.                                        *)
(*                                                                         *)
(* A Go string is a TLA+ string; Chars spells the strings the code         *)
(* transforms, so that strings.ToLower is computed character by character. *)
(***************************************************************************)
EXTENDS Integers, Sequences, FiniteSets, TLC

(***************************************************************************)
(* Bounds of the model.                                                    *)
(***************************************************************************)
MaxClock == 1      \* readings the wall clock can take: 0..MaxClock
MaxOps == 3        \* HTTP requests received over a behaviour
TicksPerDay == 1   \* clock readings per calendar day
MaxStoreOps == 2   \* HTTP requests received when both services are run
MaxSerialClock == 2  \* readings of the wall clock when requests are served
                     \* one at a time: 0..MaxSerialClock

\* the goroutines serving requests at the same time
Handlers == {1, 2}
Clock == 0..MaxClock

(***************************************************************************)
(* Program constants.                                                      *)
(***************************************************************************)
DefaultExpiresInDays == 7
StatusOK == 200
StatusCreated == 201
StatusBadRequest == 400
StatusNotFound == 404
StatusMethodNotAllowed == 405
StatusNoContent == 204

(***************************************************************************)
(* Strings.                                                                *)
(***************************************************************************)
UpperChars ==
  <<"A","B","C","D","E","F","G","H","I","J","K","L","M",
    "N","O","P","Q","R","S","T","U","V","W","X","Y","Z">>
LowerChars ==
  <<"a","b","c","d","e","f","g","h","i","j","k","l","m",
    "n","o","p","q","r","s","t","u","v","w","x","y","z">>

ToLowerChar(c) ==
  IF \E i \in 1..Len(UpperChars) : UpperChars[i] = c
  THEN LowerChars[CHOOSE i \in 1..Len(UpperChars) : UpperChars[i] = c]
  ELSE c

EmptyString == ""
Pending == "pending"
Confirmed == "confirmed"
Rejected == "rejected"
NoResponse == "no_response"
ConfirmedUpper == "CONFIRMED"
Bogus == "bogus"
Verified == "verified"
Unverified == "unverified"
VerifiedUpper == "VERIFIED"
SkillGo == "go"
SkillGoMixed == "Go"
SkillGoUpper == "GO"
SkillSQL == "sql"
Ready == "ready"
ReadyPadded == " READY "
ReadyPaddedLower == " ready "

\* the strings of the model
Strings ==
  {EmptyString, Pending, Confirmed, Rejected, NoResponse, ConfirmedUpper, Bogus,
   Verified, Unverified, VerifiedUpper, SkillGo, SkillGoMixed, SkillGoUpper,
   SkillSQL, Ready, ReadyPadded, ReadyPaddedLower}

\* the characters of a string
Chars(s) ==
  CASE s = EmptyString -> <<>>
    [] s = Pending -> <<"p","e","n","d","i","n","g">>
    [] s = Confirmed -> <<"c","o","n","f","i","r","m","e","d">>
    [] s = Rejected -> <<"r","e","j","e","c","t","e","d">>
    [] s = NoResponse -> <<"n","o","_","r","e","s","p","o","n","s","e">>
    [] s = ConfirmedUpper -> <<"C","O","N","F","I","R","M","E","D">>
    [] s = Bogus -> <<"b","o","g","u","s">>
    [] s = Verified -> <<"v","e","r","i","f","i","e","d">>
    [] s = Unverified -> <<"u","n","v","e","r","i","f","i","e","d">>
    [] s = VerifiedUpper -> <<"V","E","R","I","F","I","E","D">>
    [] s = SkillGo -> <<"g","o">>
    [] s = SkillGoMixed -> <<"G","o">>
    [] s = SkillGoUpper -> <<"G","O">>
    [] s = SkillSQL -> <<"s","q","l">>
    [] s = Ready -> <<"r","e","a","d","y">>
    [] s = ReadyPadded -> <<" ","R","E","A","D","Y"," ">>
    [] s = ReadyPaddedLower -> <<" ","r","e","a","d","y"," ">>

\* for each string, the string spelled by its lower-cased characters
LowerOf ==
  [s \in Strings |->
     CHOOSE t \in Strings :
       /\ Len(Chars(t)) = Len(Chars(s))
       /\ \A i \in 1..Len(Chars(s)) : Chars(t)[i] = ToLowerChar(Chars(s)[i])]

\* strings.ToLower
ToLower(s) == LowerOf[s]

\* a sequence of characters without its leading and trailing spaces
RECURSIVE TrimLeft(_)
TrimLeft(cs) ==
  IF cs # <<>> /\ Head(cs) = " " THEN TrimLeft(Tail(cs)) ELSE cs
RECURSIVE TrimRight(_)
TrimRight(cs) ==
  IF cs # <<>> /\ cs[Len(cs)] = " "
  THEN TrimRight(SubSeq(cs, 1, Len(cs) - 1)) ELSE cs

\* for each string, the string spelled by its characters between the spaces
TrimOf ==
  [s \in Strings |->
     CHOOSE t \in Strings : Chars(t) = TrimRight(TrimLeft(Chars(s)))]

\* strings.TrimSpace
TrimSpace(s) == TrimOf[s]

Terminal == {Confirmed, Rejected, NoResponse}

\* the zero values of an id and of a formatted time
NoID == <<>>
NoTime == <<>>

(***************************************************************************)
(* Inputs of the HTTP requests.                                            *)
(***************************************************************************)
\* the bodies clients send to POST /requests
CreateInputs ==
  {[recruiter_id |-> "r1", candidate_id |-> "c1", expires_in_days |-> 0],
   [recruiter_id |-> "r1", candidate_id |-> "c1", expires_in_days |-> -1],
   [recruiter_id |-> "r1", candidate_id |-> "c1",
    expires_in_days |-> DefaultExpiresInDays],
   [recruiter_id |-> "r2", candidate_id |-> "c2", expires_in_days |-> 1]}
StatusInputs == {Confirmed, ConfirmedUpper, Rejected, NoResponse, Bogus}
Methods == {"GET", "POST"}
ChatOutcomes == {"ok", "non2xx", "neterr", "timeout"}

(***************************************************************************)
(* InterviewRequest and the pure parts of the handlers.                    *)
(***************************************************************************)
\* fmt.Sprintf("%s-%d", prefix, time.Now().UnixNano())
newID(prefix, t) == <<prefix, t>>

\* an id the service never issued
UnknownID == newID("req", -1)

\* the decoded RequestCreate of a body that did not decode
NoCreateBody ==
  [recruiter_id |-> EmptyString, candidate_id |-> EmptyString,
   expires_in_days |-> 0]

\* time.Now().AddDate(0, 0, days).UTC().Format(time.RFC3339)
ExpiresAtOf(t, days) == <<"RFC3339", t + days * TicksPerDay>>

\* a default that replaces negative values only
ExpiresIn_ZeroKept(days) == IF days < 0 THEN DefaultExpiresInDays ELSE days
\* expiresIn := req.ExpiresInDays; if expiresIn <= 0 { expiresIn = 7 }
ExpiresIn(days) == IF days <= 0 THEN DefaultExpiresInDays ELSE days

\* InterviewRequest{}: the zero value
ZeroRequest ==
  [ID |-> NoID, RecruiterID |-> EmptyString, CandidateID |-> EmptyString,
   Status |-> EmptyString, ExpiresAt |-> NoTime]

InterviewRequest(id, rec, cand, status, exp) ==
  [ID |-> id, RecruiterID |-> rec, CandidateID |-> cand,
   Status |-> status, ExpiresAt |-> exp]

\* status := strings.ToLower(req.Status)
NormalizeStatus_Identity(raw) == raw
NormalizeStatus(raw) == ToLower(raw)

\* a validation that lets every status through
InvalidStatus_None(status) == FALSE

\* status != "confirmed" && status != "rejected" && status != "no_response"
InvalidStatus(status) ==
  status # Confirmed /\ status # Rejected /\ status # NoResponse

\* if status == "confirmed" { openChatSession(...) }
OpensChat_Always(status) == TRUE
OpensChat(status) == status = Confirmed

(***************************************************************************)
(* RequestStore: the map, as a function from the ids it holds.             *)
(***************************************************************************)
Put(m, k, v) == [x \in DOMAIN m \cup {k} |-> IF x = k THEN v ELSE m[x]]

\* RequestStore.Create, between Lock and Unlock
Create(reqs, req) == [requests |-> Put(reqs, req.ID, req), request |-> req]

\* RequestStore.Get, between RLock and RUnlock
Get(reqs, id) ==
  IF id \in DOMAIN reqs
  THEN [request |-> reqs[id], ok |-> TRUE]
  ELSE [request |-> ZeroRequest, ok |-> FALSE]

\* Update that writes only while the request is pending
Update_OnlyPending(reqs, id, status) ==
  IF id \notin DOMAIN reqs
  THEN [requests |-> reqs, request |-> ZeroRequest, ok |-> FALSE]
  ELSE IF reqs[id].Status # Pending
  THEN [requests |-> reqs, request |-> reqs[id], ok |-> TRUE]
  ELSE LET request == [reqs[id] EXCEPT !.Status = status]
       IN [requests |-> Put(reqs, id, request), request |-> request, ok |-> TRUE]

\* Update that changes its copy of the map value and never stores it back
Update_NoWriteBack(reqs, id, status) ==
  IF id \notin DOMAIN reqs
  THEN [requests |-> reqs, request |-> ZeroRequest, ok |-> FALSE]
  ELSE LET request == [reqs[id] EXCEPT !.Status = status]
       IN [requests |-> reqs, request |-> request, ok |-> TRUE]

\* Update that inserts the zero request under an id it does not hold
Update_Upsert(reqs, id, status) ==
  LET old == IF id \in DOMAIN reqs THEN reqs[id] ELSE ZeroRequest
      request == [old EXCEPT !.Status = status]
  IN [requests |-> Put(reqs, id, request), request |-> request, ok |-> TRUE]

\* RequestStore.Update, between Lock and Unlock
Update(reqs, id, status) ==
  IF id \notin DOMAIN reqs
  THEN [requests |-> reqs, request |-> ZeroRequest, ok |-> FALSE]
  ELSE LET request == [reqs[id] EXCEPT !.Status = status]
       IN [requests |-> Put(reqs, id, request), request |-> request, ok |-> TRUE]

(***************************************************************************)
(* openChatSession: what follows client.Do.                                *)
(***************************************************************************)
\* a handler that calls the chat service again after a failed call
AfterChat_Retry(outcome) == IF outcome = "ok" THEN "done" ELSE "chat"
\* every path of openChatSession returns to the respond handler
AfterChat(outcome) == "done"

\* a handler that reports a failed chat call to its caller
RespondCode_Surfaced(outcome) == IF outcome = "ok" THEN StatusOK ELSE 502
\* respondJSON(w, http.StatusOK, request) after openChatSession returned
RespondCode(outcome) == StatusOK

(***************************************************************************)
(* CandidateIndex, SearchRequest, SearchResult and IndexStore: the map, as *)
(* a function from the ids it holds, and the loops of IndexStore.Search.   *)
(***************************************************************************)
CandidateIndex(id, name, skills, readiness) ==
  [ID |-> id, Name |-> name, Skills |-> skills, ReadinessStatus |-> readiness]

\* CandidateIndex{}: the zero value
ZeroCandidate == CandidateIndex(EmptyString, EmptyString, <<>>, EmptyString)

SearchRequest(skills, readiness, minimum) ==
  [Skills |-> skills, ReadinessStatus |-> readiness, MinimumScore |-> minimum]

\* SearchRequest{}: the zero value
ZeroSearch == SearchRequest(<<>>, EmptyString, 0)

SearchResult(candidate, score) == [Candidate |-> candidate, Score |-> score]

\* an Upsert that stores the readiness status as it was sent
Upsert_NoLower(its, candidate) == Put(its, candidate.ID, candidate)

\* an Upsert that keeps the skills of the entry it replaces
Upsert_Merge(its, candidate) ==
  LET old == IF candidate.ID \in DOMAIN its
             THEN its[candidate.ID].Skills ELSE <<>>
  IN Put(its, candidate.ID,
         [candidate EXCEPT !.Skills = old \o @,
                           !.ReadinessStatus = ToLower(@)])

\* IndexStore.Upsert, between Lock and Unlock
Upsert(its, candidate) ==
  Put(its, candidate.ID, [candidate EXCEPT !.ReadinessStatus = ToLower(@)])

\* the skills map Search builds from request.Skills
RECURSIVE SkillSet(_)
SkillSet(reqSkills) ==
  IF reqSkills = <<>> THEN {}
  ELSE SkillSet(Tail(reqSkills)) \cup {ToLower(Head(reqSkills))}

\* a readiness filter that compares the strings as they are
ReadinessExcluded_CaseSensitive(candidate, request) ==
  /\ request.ReadinessStatus # EmptyString
  /\ candidate.ReadinessStatus # request.ReadinessStatus

\* the readiness test that makes Search skip a candidate
ReadinessExcluded(candidate, request) ==
  /\ request.ReadinessStatus # EmptyString
  /\ ToLower(candidate.ReadinessStatus) # ToLower(request.ReadinessStatus)

\* a score that counts each matching skill of the candidate once
Score_Distinct(candSkills, skills) ==
  Cardinality({i \in 1..Len(candSkills) :
                 /\ ToLower(candSkills[i]) \in skills
                 /\ \A j \in 1..(i - 1) :
                      ToLower(candSkills[j]) # ToLower(candSkills[i])})

\* a score that counts the query skills found among the candidate's skills
Score_QuerySide(candSkills, skills) ==
  Cardinality({k \in skills :
                 \E i \in 1..Len(candSkills) : ToLower(candSkills[i]) = k})

\* score := 0; for each skill of the candidate found in the map, score++
RECURSIVE Score(_, _)
Score(candSkills, skills) ==
  IF candSkills = <<>> THEN 0
  ELSE (IF ToLower(Head(candSkills)) \in skills THEN 1 ELSE 0)
         + Score(Tail(candSkills), skills)

\* a filter that also leaves out every candidate that matches no query skill
ScoreExcluded_ZeroDropped(score, request) ==
  score = 0 \/ (request.MinimumScore > 0 /\ score < request.MinimumScore)

\* a minimum-score test that also skips a score equal to the minimum
ScoreExcluded_OffByOne(score, request) ==
  request.MinimumScore > 0 /\ score <= request.MinimumScore

\* the minimum-score test that makes Search skip a candidate
ScoreExcluded(score, request) ==
  request.MinimumScore > 0 /\ score < request.MinimumScore

\* the orders of the elements of a sequence
Orders(seq) ==
  {p \in [1..Len(seq) -> 1..Len(seq)] :
     \A i, j \in 1..Len(seq) : i # j => p[i] # p[j]}

\* a Search that returns the results in the order the loop appended them
SortSlice_Unsorted(results) == {results}

\* sort.Slice by Score, descending; the sort is not stable, so the results
\* of equal score come out in any order
SortSlice(results) ==
  {[i \in 1..Len(results) |-> results[p[i]]] : p \in
     {q \in Orders(results) :
        \A i \in 1..(Len(results) - 1) :
          results[q[i]].Score >= results[q[i + 1]].Score}}

\* a loop that appends a surviving candidate twice
Visit_Twice(results, candidate, request) ==
  LET score == Score(candidate.Skills, SkillSet(request.Skills))
  IN IF ReadinessExcluded(candidate, request) THEN results
     ELSE IF ScoreExcluded(score, request) THEN results
     ELSE Append(Append(results, SearchResult(candidate, score)),
                 SearchResult(candidate, score))

\* one turn of the loop over s.items: the results after visiting candidate
Visit(results, candidate, request) ==
  LET score == Score(candidate.Skills, SkillSet(request.Skills))
  IN IF ReadinessExcluded(candidate, request) THEN results
     ELSE IF ScoreExcluded(score, request) THEN results
     ELSE Append(results, SearchResult(candidate, score))

(***************************************************************************)
(* The candidate-profile service: Candidate, CandidateStore and the pure   *)
(* parts of its handlers.                                                  *)
(***************************************************************************)
\* Candidate{ID, Name, Skills, ReadinessStatus, UpdatedAt}
Candidate(id, name, skills, readiness, updated) ==
  [ID |-> id, Name |-> name, Skills |-> skills,
   ReadinessStatus |-> readiness, UpdatedAt |-> updated]

\* Candidate{}: the zero value
ZeroProfile == Candidate(EmptyString, EmptyString, <<>>, EmptyString, NoTime)

\* CandidateRequest{Name, Skills, ReadinessStatus}
CandidateRequest(name, skills, readiness) ==
  [Name |-> name, Skills |-> skills, ReadinessStatus |-> readiness]

\* newID("cand"): fmt.Sprintf("%s-%d", "cand", time.Now().UnixNano())
newCandidateID(t) == "cand-" \o ToString(t)

\* time.Now().UTC().Format(time.RFC3339)
UpdatedAtOf(t) == <<"RFC3339", t>>

\* the values normalizeReadiness maps to "verified"
VerifiedAliases == {"verified", "interview-ready", "ready"}

\* normalizeReadiness: lower-cased and trimmed, an alias of verified gives
\* "verified" and everything else "unverified"
normalizeReadiness(value) ==
  IF TrimSpace(ToLower(value)) \in VerifiedAliases
  THEN Verified ELSE Unverified

\* CandidateStore.Upsert between Lock and Unlock at time t: the candidate it
\* returns
Stamped(candidate, t) == [candidate EXCEPT !.UpdatedAt = UpdatedAtOf(t)]

\* CandidateStore.Upsert between Lock and Unlock at time t: the map
CandidateUpsert(cands, candidate, t) ==
  Put(cands, candidate.ID, Stamped(candidate, t))

\* CandidateStore.Get between RLock and RUnlock
CandidateGet(cands, id) ==
  IF id \in DOMAIN cands
  THEN [candidate |-> cands[id], ok |-> TRUE]
  ELSE [candidate |-> ZeroProfile, ok |-> FALSE]

\* CandidateStore.List between RLock and RUnlock: the candidates in any of the
\* orders the range over the map can take
CandidateList(cands) ==
  {q \in [1..Cardinality(DOMAIN cands) -> {cands[id] : id \in DOMAIN cands}] :
     \A id \in DOMAIN cands : \E i \in DOMAIN q : q[i] = cands[id]}

\* the payload indexCandidate posts to /index
IndexPayload(candidate) ==
  [id |-> candidate.ID, name |-> candidate.Name, skills |-> candidate.Skills,
   readiness_status |-> candidate.ReadinessStatus]

\* a handler that answers 502 when the push to /index failed
ProfileCode_Surfaced(op, outcome) ==
  IF outcome \in {"non2xx", "err"} THEN 502
  ELSE IF op = "create" THEN StatusCreated ELSE StatusOK

\* the status of the answer to a create or an update: indexCandidate returns
\* nothing, so the outcome of the push has no part in it
ProfileCode(op, outcome) ==
  IF op = "create" THEN StatusCreated ELSE StatusOK

\* the bodies clients send to POST /candidates and PUT /candidates/{id}
ProfileInputs ==
  {CandidateRequest("Ann", <<SkillGo>>, ReadyPadded),
   CandidateRequest("Bob", <<>>, Bogus)}

\* the id a client puts a profile under without having created it
ClientID == "c1"

ProfileMethods == {"GET", "POST", "PUT"}
PushOutcomes == {"ok", "non2xx", "err"}

(***************************************************************************)
(* Inputs of the search service's HTTP requests.                           *)
(***************************************************************************)
\* the bodies clients send to POST /index
IndexInputs ==
  {CandidateIndex("c1", "Ann", <<SkillGoMixed, SkillGo>>, VerifiedUpper),
   CandidateIndex("c1", "Ann B", <<SkillSQL>>, Unverified),
   CandidateIndex("c2", "Bob", <<SkillGo, SkillSQL>>, Verified),
   CandidateIndex("c2", "Bob", <<>>, Bogus),
   CandidateIndex(EmptyString, "Cy", <<SkillGo>>, Verified)}

\* the bodies clients send to POST /search
SearchInputs ==
  {SearchRequest(<<SkillGoUpper, SkillGo>>, EmptyString, 0),
   SearchRequest(<<SkillGo, SkillSQL>>, VerifiedUpper, 1),
   SearchRequest(<<SkillSQL>>, Unverified, -1),
   SearchRequest(<<SkillGo, SkillSQL>>, EmptyString, 2),
   SearchRequest(<<>>, EmptyString, 1),
   SearchRequest(<<>>, Verified, 0),
   SearchRequest(<<SkillGoMixed, SkillGo>>, EmptyString, 0)}

(***************************************************************************)
(* State.                                                                  *)
(***************************************************************************)
VARIABLES
  requests,    \* RequestStore.requests
  mu,          \* RequestStore.mu: [writer: a handler or 0, readers: handlers]
  now,         \* the reading time.Now() returns
  chatURL,     \* getEnv("CHAT_URL", ""): "" or the chat service's address
  pc,          \* each handler's position
  l,           \* each handler's locals
  resp,        \* the HTTP response the last step wrote, if it wrote one
  inflight,    \* the POST /sessions calls the chat service has not answered
  nChat,       \* POST /sessions calls issued so far
  nConfirmed,  \* store.Update calls that wrote status confirmed so far
  everConfirmed, \* the ids store.Update wrote status confirmed under
  nCreated,    \* store.Create calls completed so far
  nOps         \* HTTP requests received so far

VARIABLES
  items,       \* IndexStore.items
  imu,         \* IndexStore.mu: [writer: a handler or 0, readers: handlers]
  ipc,         \* each search-service handler's position
  il,          \* each search-service handler's locals
  iresp,       \* the HTTP response the last step wrote, if it wrote one
  lastLocked,  \* per id, the candidate of the Upsert that last took the lock
  completed,   \* per id, the candidate of the Upsert that last returned
  replaced,    \* the ids an Upsert has written over an entry of
  rewritten    \* the ids an Upsert has stored the entry already there under

\* the candidate-profile service
VARIABLES
  candidates,  \* CandidateStore.candidates
  cmu,         \* CandidateStore.mu: [writer: a handler or 0, readers: handlers]
  searchURL,   \* getEnv("SEARCH_URL", ""): "" or the search service's address
  ppc,         \* each profile-service handler's position
  pl,          \* each profile-service handler's locals
  presp,       \* the HTTP response the last step wrote, if it wrote one
  pushes,      \* the POST /index calls sent and neither received nor answered
  nPush        \* POST /index calls issued so far

vars == <<requests, mu, now, chatURL, pc, l, resp, inflight, nChat,
          nConfirmed, everConfirmed, nCreated, nOps,
          items, imu, ipc, il, iresp, lastLocked, completed, replaced,
          rewritten,
          candidates, cmu, searchURL, ppc, pl, presp, pushes, nPush>>

NoHandler == 0

\* a handler's locals before it has decoded anything; as a response: none
IdleLocals ==
  [op |-> "none", id |-> NoID, raw |-> EmptyString,
   status |-> EmptyString, days |-> 0, request |-> ZeroRequest,
   ok |-> FALSE, calls |-> 0, outcome |-> "none", code |-> 0]

NoResponseYet == IdleLocals

\* a search-service handler's locals before it has decoded anything; as a
\* response: none.  todo: the entries the loop over s.items has yet to visit
IdleIndexLocals ==
  [op |-> "none", candidate |-> ZeroCandidate, request |-> ZeroSearch,
   todo |-> {}, results |-> <<>>, code |-> 0]

NoIndexResponse == IdleIndexLocals

\* a profile handler's locals before it has decoded anything
IdleProfileLocals ==
  [op |-> "none", candidate |-> ZeroProfile, ok |-> FALSE, list |-> <<>>,
   calls |-> 0, outcome |-> "none", code |-> 0]

NoProfileResponse == IdleProfileLocals

\* the stores, locks and handlers of the three services as main leaves them
Started ==
  /\ requests = <<>>
  /\ mu = [writer |-> NoHandler, readers |-> {}]
  /\ now = 0
  /\ pc = [h \in Handlers |-> "idle"]
  /\ l = [h \in Handlers |-> IdleLocals]
  /\ resp = NoResponseYet
  /\ inflight = {}
  /\ nChat = 0
  /\ nConfirmed = 0
  /\ everConfirmed = {}
  /\ nCreated = 0
  /\ nOps = 0
  /\ items = <<>>
  /\ imu = [writer |-> NoHandler, readers |-> {}]
  /\ ipc = [h \in Handlers |-> "idle"]
  /\ il = [h \in Handlers |-> IdleIndexLocals]
  /\ iresp = NoIndexResponse
  /\ lastLocked = <<>>
  /\ completed = <<>>
  /\ replaced = {}
  /\ rewritten = {}
  /\ candidates = <<>>
  /\ cmu = [writer |-> NoHandler, readers |-> {}]
  /\ ppc = [h \in Handlers |-> "idle"]
  /\ pl = [h \in Handlers |-> IdleProfileLocals]
  /\ presp = NoProfileResponse
  /\ pushes = {}
  /\ nPush = 0

\* the workflow service with CHAT_URL set or unset; SEARCH_URL is read by the
\* candidate-profile service only and is unset
Init ==
  /\ Started
  /\ chatURL \in {"", "http://chat"}
  /\ searchURL = EmptyString

\* the candidate-profile service with SEARCH_URL set or unset; CHAT_URL is
\* read by the workflow service only and is unset
InitProfile ==
  /\ Started
  /\ chatURL = EmptyString
  /\ searchURL \in {"", "http://search"}

\* handler h moves on to position p with locals loc, writing no response
Goto(h, p, loc) ==
  /\ pc' = [pc EXCEPT ![h] = p]
  /\ l' = [l EXCEPT ![h] = loc]
  /\ resp' = NoResponseYet

\* handler h writes its response (w.WriteHeader, respondJSON, http.Error)
\* and returns: the goroutine ends
Reply(h, r) ==
  /\ pc' = [pc EXCEPT ![h] = "idle"]
  /\ l' = [l EXCEPT ![h] = IdleLocals]
  /\ resp' = r

\* a step of another service: the candidate-profile service stands still
ProfileUnchanged ==
  /\ presp' = NoProfileResponse
  /\ UNCHANGED <<candidates, cmu, searchURL, ppc, pl, pushes, nPush>>

\* a step of the workflow service: the search service stands still
IndexUnchanged ==
  /\ iresp' = NoIndexResponse
  /\ UNCHANGED <<items, imu, ipc, il, lastLocked, completed, replaced, rewritten>>

\* a step of the search service: the workflow service stands still
WorkflowUnchanged ==
  /\ resp' = NoResponseYet
  /\ UNCHANGED <<requests, mu, now, chatURL, pc, l, inflight, nChat,
                 nConfirmed, everConfirmed, nCreated>>

\* a clock whose advance moves every pending request past its ExpiresAt to
\* no_response
TickTo_Expiring(max) ==
  /\ now < max
  /\ now' = now + 1
  /\ resp' = NoResponseYet
  /\ requests' =
       [id \in DOMAIN requests |->
          IF requests[id].Status = Pending /\ requests[id].ExpiresAt[2] < now'
          THEN [requests[id] EXCEPT !.Status = NoResponse]
          ELSE requests[id]]
  /\ UNCHANGED <<mu, chatURL, pc, l, inflight, nChat, nConfirmed,
                 everConfirmed, nCreated, nOps>>
  /\ IndexUnchanged
  /\ ProfileUnchanged

\* the wall clock advances, up to the reading max
TickTo(max) ==
  /\ now < max
  /\ now' = now + 1
  /\ resp' = NoResponseYet
  /\ UNCHANGED <<requests, mu, chatURL, pc, l, inflight, nChat, nConfirmed,
                 everConfirmed, nCreated, nOps>>
  /\ IndexUnchanged
  /\ ProfileUnchanged

Tick == TickTo(MaxClock)

(***************************************************************************)
(* POST /requests                                                          *)
(***************************************************************************)
\* the handler up to store.Create: method, decode, default, newID
CreateRecv(h, method, bodyOk, rec, cand, days) ==
  /\ pc[h] = "idle"
  /\ nOps < MaxOps
  /\ nOps' = nOps + 1
  /\ LET loc == [l[h] EXCEPT !.op = "create"]
     IN IF method # "POST"
        THEN Reply(h, [loc EXCEPT !.code = StatusMethodNotAllowed])
        ELSE IF ~bodyOk
        THEN Reply(h, [loc EXCEPT !.code = StatusBadRequest])
        ELSE Goto(h, "create_lock",
                  [loc EXCEPT !.id = newID("req", now),
                              !.days = ExpiresIn(days),
                              !.request =
                                InterviewRequest(newID("req", now), rec, cand,
                                                 Pending, NoTime)])
  /\ UNCHANGED <<requests, mu, now, chatURL, inflight, nChat, nConfirmed,
                 everConfirmed, nCreated>>
  /\ IndexUnchanged
  /\ ProfileUnchanged

\* ExpiresAt is read off the clock, then store.Create takes the lock
CreateLock(h) ==
  /\ pc[h] = "create_lock"
  /\ mu.writer = NoHandler /\ mu.readers = {}
  /\ mu' = [mu EXCEPT !.writer = h]
  /\ Goto(h, "create_body",
          [l[h] EXCEPT !.request.ExpiresAt = ExpiresAtOf(now, l[h].days),
                       !.days = 0])
  /\ UNCHANGED <<requests, now, chatURL, inflight, nChat, nConfirmed,
                 everConfirmed, nCreated, nOps>>
  /\ IndexUnchanged
  /\ ProfileUnchanged

\* store.Create's body and deferred Unlock, then respondJSON(201)
CreateBody(h) ==
  /\ pc[h] = "create_body"
  /\ mu.writer = h
  /\ LET r == Create(requests, l[h].request)
     IN /\ requests' = r.requests
        /\ Reply(h, [l[h] EXCEPT !.request = r.request,
                                 !.code = StatusCreated])
  /\ mu' = [mu EXCEPT !.writer = NoHandler]
  /\ nCreated' = nCreated + 1
  /\ UNCHANGED <<now, chatURL, inflight, nChat, nConfirmed, everConfirmed,
                 nOps>>
  /\ IndexUnchanged
  /\ ProfileUnchanged

(***************************************************************************)
(* GET /requests/{id}                                                      *)
(***************************************************************************)
GetRecv(h, id, method) ==
  /\ pc[h] = "idle"
  /\ nOps < MaxOps
  /\ nOps' = nOps + 1
  /\ LET loc == [l[h] EXCEPT !.op = "get", !.id = id]
     IN IF method # "GET"
        THEN Reply(h, [loc EXCEPT !.code = StatusMethodNotAllowed])
        ELSE Goto(h, "get_lock", loc)
  /\ UNCHANGED <<requests, mu, now, chatURL, inflight, nChat, nConfirmed,
                 everConfirmed, nCreated>>
  /\ IndexUnchanged
  /\ ProfileUnchanged

\* an RLock that does not wait for the writer to leave
GetLock_NoWait(h) ==
  /\ pc[h] = "get_lock"
  /\ mu' = [mu EXCEPT !.readers = @ \cup {h}]
  /\ Goto(h, "get_body", l[h])
  /\ UNCHANGED <<requests, now, chatURL, inflight, nChat, nConfirmed,
                 everConfirmed, nCreated, nOps>>
  /\ IndexUnchanged
  /\ ProfileUnchanged

\* s.mu.RLock()
GetLock(h) ==
  /\ pc[h] = "get_lock"
  /\ mu.writer = NoHandler
  /\ mu' = [mu EXCEPT !.readers = @ \cup {h}]
  /\ Goto(h, "get_body", l[h])
  /\ UNCHANGED <<requests, now, chatURL, inflight, nChat, nConfirmed,
                 everConfirmed, nCreated, nOps>>
  /\ IndexUnchanged
  /\ ProfileUnchanged

\* store.Get's body and deferred RUnlock, then 200 or http.NotFound
GetBody(h) ==
  /\ pc[h] = "get_body"
  /\ h \in mu.readers
  /\ LET r == Get(requests, l[h].id)
     IN Reply(h, [l[h] EXCEPT
                    !.ok = r.ok,
                    !.request = r.request,
                    !.code = IF r.ok THEN StatusOK ELSE StatusNotFound])
  /\ mu' = [mu EXCEPT !.readers = @ \ {h}]
  /\ UNCHANGED <<requests, now, chatURL, inflight, nChat, nConfirmed,
                 everConfirmed, nCreated, nOps>>
  /\ IndexUnchanged
  /\ ProfileUnchanged

(***************************************************************************)
(* POST /requests/{id}/respond                                             *)
(***************************************************************************)
\* a handler that looks the id up before it validates the status
RespondRecv_LookupFirst(h, id, method, bodyOk, raw) ==
  /\ pc[h] = "idle"
  /\ nOps < MaxOps
  /\ nOps' = nOps + 1
  /\ LET status == NormalizeStatus(raw)
         loc == [l[h] EXCEPT !.op = "respond", !.id = id]
     IN IF method # "POST"
        THEN Reply(h, [loc EXCEPT !.code = StatusMethodNotAllowed])
        ELSE IF ~bodyOk
        THEN Reply(h, [loc EXCEPT !.code = StatusBadRequest])
        ELSE IF id \notin DOMAIN requests
        THEN Reply(h, [loc EXCEPT !.raw = raw, !.code = StatusNotFound])
        ELSE IF InvalidStatus(status)
        THEN Reply(h, [loc EXCEPT !.raw = raw, !.code = StatusBadRequest])
        ELSE Goto(h, "update_lock",
                  [loc EXCEPT !.raw = raw, !.status = status])
  /\ UNCHANGED <<requests, mu, now, chatURL, inflight, nChat, nConfirmed,
                 everConfirmed, nCreated>>
  /\ IndexUnchanged
  /\ ProfileUnchanged

\* the handler up to store.Update: method, decode, ToLower, validation
RespondRecv(h, id, method, bodyOk, raw) ==
  /\ pc[h] = "idle"
  /\ nOps < MaxOps
  /\ nOps' = nOps + 1
  /\ LET status == NormalizeStatus(raw)
         loc == [l[h] EXCEPT !.op = "respond", !.id = id]
     IN IF method # "POST"
        THEN Reply(h, [loc EXCEPT !.code = StatusMethodNotAllowed])
        ELSE IF ~bodyOk
        THEN Reply(h, [loc EXCEPT !.code = StatusBadRequest])
        ELSE IF InvalidStatus(status)
        THEN Reply(h, [loc EXCEPT !.raw = raw, !.code = StatusBadRequest])
        ELSE Goto(h, "update_lock",
                  [loc EXCEPT !.raw = raw, !.status = status])
  /\ UNCHANGED <<requests, mu, now, chatURL, inflight, nChat, nConfirmed,
                 everConfirmed, nCreated>>
  /\ IndexUnchanged
  /\ ProfileUnchanged

UpdateLock(h) ==
  /\ pc[h] = "update_lock"
  /\ mu.writer = NoHandler /\ mu.readers = {}
  /\ mu' = [mu EXCEPT !.writer = h]
  /\ Goto(h, "update_body", l[h])
  /\ UNCHANGED <<requests, now, chatURL, inflight, nChat, nConfirmed,
                 everConfirmed, nCreated, nOps>>
  /\ IndexUnchanged
  /\ ProfileUnchanged

\* a respond that keeps the write lock over its chat call
UpdateBody_KeepsLock(h) ==
  /\ pc[h] = "update_body"
  /\ mu.writer = h
  /\ LET r == Update(requests, l[h].id, l[h].status)
         wrote == r.ok /\ l[h].status = Confirmed
         loc == [l[h] EXCEPT !.ok = r.ok, !.request = r.request]
     IN /\ requests' = r.requests
        /\ nConfirmed' = IF wrote THEN nConfirmed + 1 ELSE nConfirmed
        /\ everConfirmed' =
             IF wrote THEN everConfirmed \cup {l[h].id} ELSE everConfirmed
        /\ IF ~r.ok
           THEN Reply(h, [loc EXCEPT !.code = StatusNotFound])
           ELSE IF OpensChat(l[h].status)
           THEN Goto(h, "chat", loc)
           ELSE Reply(h, [loc EXCEPT !.code = StatusOK])
        /\ mu' = IF r.ok /\ OpensChat(l[h].status)
                 THEN mu ELSE [mu EXCEPT !.writer = NoHandler]
  /\ UNCHANGED <<now, chatURL, inflight, nChat, nCreated, nOps>>
  /\ IndexUnchanged
  /\ ProfileUnchanged

\* store.Update's body and deferred Unlock, then the handler up to the
\* chat call or its response
UpdateBody(h) ==
  /\ pc[h] = "update_body"
  /\ mu.writer = h
  /\ LET r == Update(requests, l[h].id, l[h].status)
         wrote == r.ok /\ l[h].status = Confirmed
         loc == [l[h] EXCEPT !.ok = r.ok, !.request = r.request]
     IN /\ requests' = r.requests
        /\ nConfirmed' = IF wrote THEN nConfirmed + 1 ELSE nConfirmed
        /\ everConfirmed' =
             IF wrote THEN everConfirmed \cup {l[h].id} ELSE everConfirmed
        /\ IF ~r.ok
           THEN Reply(h, [loc EXCEPT !.code = StatusNotFound])
           ELSE IF OpensChat(l[h].status)
           THEN Goto(h, "chat", loc)
           ELSE Reply(h, [loc EXCEPT !.code = StatusOK])
  /\ mu' = [mu EXCEPT !.writer = NoHandler]
  /\ UNCHANGED <<now, chatURL, inflight, nChat, nCreated, nOps>>
  /\ IndexUnchanged
  /\ ProfileUnchanged

\* openChatSession up to client.Do: nothing is sent without a CHAT_URL
ChatOpen(h) ==
  /\ pc[h] = "chat"
  /\ IF chatURL = ""
     THEN /\ Reply(h, [l[h] EXCEPT !.code = StatusOK])
          /\ UNCHANGED <<inflight, nChat>>
     ELSE /\ Goto(h, "chat_wait", [l[h] EXCEPT !.calls = @ + 1])
          /\ inflight' = inflight \cup
               {[from |-> h,
                 candidate_id |-> l[h].request.CandidateID,
                 recruiter_id |-> l[h].request.RecruiterID]}
          /\ nChat' = nChat + 1
  /\ UNCHANGED <<requests, mu, now, chatURL, nConfirmed, everConfirmed,
                 nCreated, nOps>>
  /\ IndexUnchanged
  /\ ProfileUnchanged

\* a client without a Timeout: client.Do returns only when the chat service
\* answers or the connection fails
ChatResult_NoTimeout(h, outcome) ==
  /\ pc[h] = "chat_wait"
  /\ outcome # "timeout"
  /\ inflight' = {m \in inflight : m.from # h}
  /\ Reply(h, [l[h] EXCEPT !.outcome = outcome,
                           !.code = RespondCode(outcome)])
  /\ UNCHANGED <<requests, mu, now, chatURL, nChat, nConfirmed,
                 everConfirmed, nCreated, nOps>>
  /\ IndexUnchanged
  /\ ProfileUnchanged

\* a handler that answers with the request as the store holds it after the
\* chat call
ChatResult_Reread(h, outcome) ==
  /\ pc[h] = "chat_wait"
  /\ inflight' = {m \in inflight : m.from # h}
  /\ IF AfterChat(outcome) = "done"
     THEN Reply(h, [l[h] EXCEPT !.outcome = outcome,
                                !.request = Get(requests, l[h].id).request,
                                !.code = RespondCode(outcome)])
     ELSE Goto(h, AfterChat(outcome), [l[h] EXCEPT !.outcome = outcome])
  /\ UNCHANGED <<requests, mu, now, chatURL, nChat, nConfirmed,
                 everConfirmed, nCreated, nOps>>
  /\ IndexUnchanged
  /\ ProfileUnchanged

\* client.Do returns: a 2xx, another status, a network error, or the
\* client's 3 s timeout; then the handler answers its caller
ChatResult(h, outcome) ==
  /\ pc[h] = "chat_wait"
  /\ inflight' = {m \in inflight : m.from # h}
  /\ IF AfterChat(outcome) = "done"
     THEN Reply(h, [l[h] EXCEPT !.outcome = outcome,
                                !.code = RespondCode(outcome)])
     ELSE Goto(h, AfterChat(outcome), [l[h] EXCEPT !.outcome = outcome])
  /\ UNCHANGED <<requests, mu, now, chatURL, nChat, nConfirmed,
                 everConfirmed, nCreated, nOps>>
  /\ IndexUnchanged
  /\ ProfileUnchanged

\* the ids a client names in a path: one it was given, or one never issued
PathIDs == DOMAIN requests \cup {UnknownID}

\* the requests a client sends: with a method the route refuses, with a
\* body that does not decode, or well-formed with each body
CreateRequests ==
  {<<m, FALSE, NoCreateBody>> : m \in Methods}
    \cup {<<"POST", TRUE, c>> : c \in CreateInputs}
GetRequests == {<<m, id>> : m \in Methods, id \in PathIDs}
RespondRequests ==
  {<<m, id, FALSE, EmptyString>> : m \in Methods, id \in {UnknownID}}
    \cup {<<"POST", id, TRUE, s>> : id \in PathIDs, s \in StatusInputs}

Next ==
  \/ Tick
  \/ \E h \in Handlers :
       \/ \E q \in CreateRequests :
            CreateRecv(h, q[1], q[2], q[3].recruiter_id, q[3].candidate_id,
                       q[3].expires_in_days)
       \/ CreateLock(h)
       \/ CreateBody(h)
       \/ \E q \in GetRequests : GetRecv(h, q[2], q[1])
       \/ GetLock(h)
       \/ GetBody(h)
       \/ \E q \in RespondRequests : RespondRecv(h, q[2], q[1], q[3], q[4])
       \/ UpdateLock(h)
       \/ UpdateBody(h)
       \/ ChatOpen(h)
       \/ \E o \in ChatOutcomes : ChatResult(h, o)

Spec == Init /\ [][Next]_vars

(***************************************************************************)
(* The same service receiving its requests one at a time (each request is  *)
(* answered before the next arrives), over a longer stretch of the clock.  *)
(***************************************************************************)
SerialHandler == 1

NextSerial ==
  \/ TickTo(MaxSerialClock)
  \/ \E q \in CreateRequests :
       CreateRecv(SerialHandler, q[1], q[2], q[3].recruiter_id,
                  q[3].candidate_id, q[3].expires_in_days)
  \/ CreateLock(SerialHandler)
  \/ CreateBody(SerialHandler)
  \/ \E q \in GetRequests : GetRecv(SerialHandler, q[2], q[1])
  \/ GetLock(SerialHandler)
  \/ GetBody(SerialHandler)
  \/ \E q \in RespondRequests :
       RespondRecv(SerialHandler, q[2], q[1], q[3], q[4])
  \/ UpdateLock(SerialHandler)
  \/ UpdateBody(SerialHandler)
  \/ ChatOpen(SerialHandler)
  \/ \E o \in ChatOutcomes : ChatResult(SerialHandler, o)

SpecSerial == Init /\ [][NextSerial]_vars

(***************************************************************************)
(* The service, its requests one at a time, under the scheduling the       *)
(* runtime gives it: a goroutine that can take its next step takes it, and *)
(* client.Do returns when the client's Timeout expires if not before.      *)
(* Whether the chat service ever answers is not assumed.                   *)
(***************************************************************************)
Progress(h) ==
  \/ CreateLock(h) \/ CreateBody(h)
  \/ GetLock(h) \/ GetBody(h)
  \/ UpdateLock(h) \/ UpdateBody(h)
  \/ ChatOpen(h)
  \/ ChatResult(h, "timeout")

Fairness == WF_vars(Progress(SerialHandler))

SpecLive == Init /\ [][NextSerial]_vars /\ Fairness

(***************************************************************************)
(* The search service.                                                     *)
(***************************************************************************)
\* handler h moves on to position p with locals loc, writing no response
IndexGoto(h, p, loc) ==
  /\ ipc' = [ipc EXCEPT ![h] = p]
  /\ il' = [il EXCEPT ![h] = loc]
  /\ iresp' = NoIndexResponse

\* handler h writes its response and returns: the goroutine ends
IndexReply(h, r) ==
  /\ ipc' = [ipc EXCEPT ![h] = "idle"]
  /\ il' = [il EXCEPT ![h] = IdleIndexLocals]
  /\ iresp' = r

(***************************************************************************)
(* POST /index                                                             *)
(***************************************************************************)
\* a handler that passes a candidate without an id on to store.Upsert
IndexRecv_NoIDTest(h, method, bodyOk, candidate) ==
  /\ ipc[h] = "idle"
  /\ nOps < MaxOps
  /\ nOps' = nOps + 1
  /\ LET loc == [il[h] EXCEPT !.op = "index"]
     IN IF method # "POST"
        THEN IndexReply(h, [loc EXCEPT !.code = StatusMethodNotAllowed])
        ELSE IF ~bodyOk
        THEN IndexReply(h, [loc EXCEPT !.code = StatusBadRequest])
        ELSE IndexGoto(h, "upsert_lock", [loc EXCEPT !.candidate = candidate])
  /\ UNCHANGED <<items, imu, lastLocked, completed, replaced, rewritten>>
  /\ WorkflowUnchanged
  /\ ProfileUnchanged

\* the handler up to store.Upsert: method, decode, the id test
IndexRecv(h, method, bodyOk, candidate) ==
  /\ ipc[h] = "idle"
  /\ nOps < MaxOps
  /\ nOps' = nOps + 1
  /\ LET loc == [il[h] EXCEPT !.op = "index"]
     IN IF method # "POST"
        THEN IndexReply(h, [loc EXCEPT !.code = StatusMethodNotAllowed])
        ELSE IF ~bodyOk
        THEN IndexReply(h, [loc EXCEPT !.code = StatusBadRequest])
        ELSE IF candidate.ID = EmptyString
        THEN IndexReply(h, [loc EXCEPT !.candidate = candidate,
                                       !.code = StatusBadRequest])
        ELSE IndexGoto(h, "upsert_lock", [loc EXCEPT !.candidate = candidate])
  /\ UNCHANGED <<items, imu, lastLocked, completed, replaced, rewritten>>
  /\ WorkflowUnchanged
  /\ ProfileUnchanged

\* a Lock that does not wait for the readers to leave
UpsertLock_NoWait(h) ==
  /\ ipc[h] = "upsert_lock"
  /\ imu.writer = NoHandler
  /\ imu' = [imu EXCEPT !.writer = h]
  /\ lastLocked' = Put(lastLocked, il[h].candidate.ID, il[h].candidate)
  /\ IndexGoto(h, "upsert_body", il[h])
  /\ UNCHANGED <<items, completed, replaced, rewritten, nOps>>
  /\ WorkflowUnchanged
  /\ ProfileUnchanged

\* s.mu.Lock()
UpsertLock(h) ==
  /\ ipc[h] = "upsert_lock"
  /\ imu.writer = NoHandler /\ imu.readers = {}
  /\ imu' = [imu EXCEPT !.writer = h]
  /\ lastLocked' = Put(lastLocked, il[h].candidate.ID, il[h].candidate)
  /\ IndexGoto(h, "upsert_body", il[h])
  /\ UNCHANGED <<items, completed, replaced, rewritten, nOps>>
  /\ WorkflowUnchanged
  /\ ProfileUnchanged

\* store.Upsert's body and deferred Unlock, then w.WriteHeader(204)
UpsertBody(h) ==
  /\ ipc[h] = "upsert_body"
  /\ imu.writer = h
  /\ items' = Upsert(items, il[h].candidate)
  /\ imu' = [imu EXCEPT !.writer = NoHandler]
  /\ completed' = Put(completed, il[h].candidate.ID, il[h].candidate)
  /\ replaced' = IF il[h].candidate.ID \in DOMAIN items
                 THEN replaced \cup {il[h].candidate.ID} ELSE replaced
  /\ rewritten' =
       IF /\ il[h].candidate.ID \in DOMAIN completed
          /\ completed[il[h].candidate.ID] = il[h].candidate
       THEN rewritten \cup {il[h].candidate.ID} ELSE rewritten
  /\ IndexReply(h, [il[h] EXCEPT !.code = StatusNoContent])
  /\ UNCHANGED <<lastLocked, nOps>>
  /\ WorkflowUnchanged
  /\ ProfileUnchanged

(***************************************************************************)
(* POST /search                                                            *)
(***************************************************************************)
\* the handler up to store.Search: method, decode
SearchRecv(h, method, bodyOk, request) ==
  /\ ipc[h] = "idle"
  /\ nOps < MaxOps
  /\ nOps' = nOps + 1
  /\ LET loc == [il[h] EXCEPT !.op = "search"]
     IN IF method # "POST"
        THEN IndexReply(h, [loc EXCEPT !.code = StatusMethodNotAllowed])
        ELSE IF ~bodyOk
        THEN IndexReply(h, [loc EXCEPT !.code = StatusBadRequest])
        ELSE IndexGoto(h, "search_lock", [loc EXCEPT !.request = request])
  /\ UNCHANGED <<items, imu, lastLocked, completed, replaced, rewritten>>
  /\ WorkflowUnchanged
  /\ ProfileUnchanged

\* s.mu.RLock(); the loop over s.items has every entry to visit
SearchLock(h) ==
  /\ ipc[h] = "search_lock"
  /\ imu.writer = NoHandler
  /\ imu' = [imu EXCEPT !.readers = @ \cup {h}]
  /\ IndexGoto(h, "search_loop", [il[h] EXCEPT !.todo = DOMAIN items])
  /\ UNCHANGED <<items, lastLocked, completed, replaced, rewritten, nOps>>
  /\ WorkflowUnchanged
  /\ ProfileUnchanged

\* a loop that takes each entry it visits out of the map
SearchVisit_Consuming(h) ==
  /\ ipc[h] = "search_loop"
  /\ h \in imu.readers
  /\ \E id \in il[h].todo \cap DOMAIN items :
       /\ IndexGoto(h, "search_loop",
                    [il[h] EXCEPT
                       !.todo = @ \ {id},
                       !.results = Visit(@, items[id], il[h].request)])
       /\ items' = [x \in DOMAIN items \ {id} |-> items[x]]
  /\ UNCHANGED <<imu, lastLocked, completed, replaced, rewritten, nOps>>
  /\ WorkflowUnchanged
  /\ ProfileUnchanged

\* one turn of the loop over s.items, the map handing out its entries in
\* an order of its own
SearchVisit(h) ==
  /\ ipc[h] = "search_loop"
  /\ h \in imu.readers
  /\ \E id \in il[h].todo :
       IndexGoto(h, "search_loop",
                 [il[h] EXCEPT
                    !.todo = @ \ {id},
                    !.results = Visit(@, items[id], il[h].request)])
  /\ UNCHANGED <<items, imu, lastLocked, completed, replaced, rewritten, nOps>>
  /\ WorkflowUnchanged
  /\ ProfileUnchanged

\* the loop is over: sort.Slice, the deferred RUnlock, respondJSON(200)
SearchSort(h) ==
  /\ ipc[h] = "search_loop"
  /\ h \in imu.readers
  /\ il[h].todo = {}
  /\ \E sorted \in SortSlice(il[h].results) :
       IndexReply(h, [il[h] EXCEPT !.results = sorted, !.code = StatusOK])
  /\ imu' = [imu EXCEPT !.readers = @ \ {h}]
  /\ UNCHANGED <<items, lastLocked, completed, replaced, rewritten, nOps>>
  /\ WorkflowUnchanged
  /\ ProfileUnchanged

\* the requests a client sends to the search service
IndexRequests ==
  {<<m, FALSE, ZeroCandidate>> : m \in Methods}
    \cup {<<"POST", TRUE, c>> : c \in IndexInputs}
SearchRequests ==
  {<<m, FALSE, ZeroSearch>> : m \in Methods}
    \cup {<<"POST", TRUE, q>> : q \in SearchInputs}

NextIndex ==
  \E h \in Handlers :
    \/ \E q \in IndexRequests : IndexRecv(h, q[1], q[2], q[3])
    \/ UpsertLock(h)
    \/ UpsertBody(h)
    \/ \E q \in SearchRequests : SearchRecv(h, q[1], q[2], q[3])
    \/ SearchLock(h)
    \/ SearchVisit(h)
    \/ SearchSort(h)

SpecIndex == Init /\ [][NextIndex]_vars

(***************************************************************************)
(* The two services side by side.                                          *)
(***************************************************************************)
\* a request is received while fewer than MaxStoreOps have been
Receive(A) == nOps < MaxStoreOps /\ A

NextStores ==
  \/ Tick
  \/ \E h \in Handlers :
       \/ \E q \in CreateRequests :
            Receive(CreateRecv(h, q[1], q[2], q[3].recruiter_id,
                               q[3].candidate_id, q[3].expires_in_days))
       \/ CreateLock(h)
       \/ CreateBody(h)
       \/ \E q \in GetRequests : Receive(GetRecv(h, q[2], q[1]))
       \/ GetLock(h)
       \/ GetBody(h)
       \/ \E q \in RespondRequests :
            Receive(RespondRecv(h, q[2], q[1], q[3], q[4]))
       \/ UpdateLock(h)
       \/ UpdateBody(h)
       \/ ChatOpen(h)
       \/ \E o \in ChatOutcomes : ChatResult(h, o)
       \/ \E q \in IndexRequests : Receive(IndexRecv(h, q[1], q[2], q[3]))
       \/ UpsertLock(h)
       \/ UpsertBody(h)
       \/ \E q \in SearchRequests : Receive(SearchRecv(h, q[1], q[2], q[3]))
       \/ SearchLock(h)
       \/ SearchVisit(h)
       \/ SearchSort(h)

SpecStores == Init /\ [][NextStores]_vars

(***************************************************************************)
(* The candidate-profile service: its handlers, step by step.              *)
(***************************************************************************)
\* a step of the candidate-profile service: the other services stand still
OthersUnchanged ==
  /\ WorkflowUnchanged
  /\ IndexUnchanged

\* handler h moves on to position p with locals loc, writing no response
ProfileGoto(h, p, loc) ==
  /\ ppc' = [ppc EXCEPT ![h] = p]
  /\ pl' = [pl EXCEPT ![h] = loc]
  /\ presp' = NoProfileResponse

\* handler h writes its response and returns
ProfileReply(h, r) ==
  /\ ppc' = [ppc EXCEPT ![h] = "idle"]
  /\ pl' = [pl EXCEPT ![h] = IdleProfileLocals]
  /\ presp' = r

\* the /candidates handler up to the store: GET lists, POST decodes and
\* builds the candidate under a new id
CandidatesRecv(h, method, bodyOk, req) ==
  /\ ppc[h] = "idle"
  /\ nOps < MaxOps
  /\ nOps' = nOps + 1
  /\ IF method = "GET"
     THEN ProfileGoto(h, "list_lock", [pl[h] EXCEPT !.op = "list"])
     ELSE IF method = "POST"
     THEN IF ~bodyOk
          THEN ProfileReply(h, [pl[h] EXCEPT !.op = "create",
                                             !.code = StatusBadRequest])
          ELSE ProfileGoto(h, "store_lock",
                 [pl[h] EXCEPT
                    !.op = "create",
                    !.candidate =
                       Candidate(newCandidateID(now), req.Name, req.Skills,
                                 normalizeReadiness(req.ReadinessStatus),
                                 NoTime)])
     ELSE ProfileReply(h, [pl[h] EXCEPT !.code = StatusMethodNotAllowed])
  /\ UNCHANGED <<candidates, cmu, searchURL, pushes, nPush>>
  /\ OthersUnchanged

\* the /candidates/{id} handler up to the store: the id test, GET reads, PUT
\* decodes and builds the candidate under the id of the path
CandidateRecv(h, id, method, bodyOk, req) ==
  /\ ppc[h] = "idle"
  /\ nOps < MaxOps
  /\ nOps' = nOps + 1
  /\ IF id = EmptyString
     THEN ProfileReply(h, [pl[h] EXCEPT !.code = StatusNotFound])
     ELSE IF method = "GET"
     THEN ProfileGoto(h, "get_lock",
            [pl[h] EXCEPT !.op = "get", !.candidate.ID = id])
     ELSE IF method = "PUT"
     THEN IF ~bodyOk
          THEN ProfileReply(h, [pl[h] EXCEPT !.op = "update",
                                             !.code = StatusBadRequest])
          ELSE ProfileGoto(h, "store_lock",
                 [pl[h] EXCEPT
                    !.op = "update",
                    !.candidate =
                       Candidate(id, req.Name, req.Skills,
                                 normalizeReadiness(req.ReadinessStatus),
                                 NoTime)])
     ELSE ProfileReply(h, [pl[h] EXCEPT !.code = StatusMethodNotAllowed])
  /\ UNCHANGED <<candidates, cmu, searchURL, pushes, nPush>>
  /\ OthersUnchanged

\* store.Upsert: s.mu.Lock()
StoreLock(h) ==
  /\ ppc[h] = "store_lock"
  /\ cmu.writer = NoHandler /\ cmu.readers = {}
  /\ cmu' = [cmu EXCEPT !.writer = h]
  /\ ProfileGoto(h, "store_body", pl[h])
  /\ UNCHANGED <<candidates, searchURL, pushes, nPush, nOps>>
  /\ OthersUnchanged

\* store.Upsert: the time stamp, the write, the deferred Unlock
StoreBody(h) ==
  /\ ppc[h] = "store_body"
  /\ candidates' = CandidateUpsert(candidates, pl[h].candidate, now)
  /\ cmu' = [cmu EXCEPT !.writer = NoHandler]
  /\ ProfileGoto(h, "push",
       [pl[h] EXCEPT !.candidate = Stamped(pl[h].candidate, now),
                     !.ok = TRUE])
  /\ UNCHANGED <<searchURL, pushes, nPush, nOps>>
  /\ OthersUnchanged

\* indexCandidate up to client.Do: nothing is sent when SEARCH_URL is unset,
\* and the handler answers with the candidate the store returned
PushOpen(h) ==
  /\ ppc[h] = "push"
  /\ IF searchURL = EmptyString
     THEN /\ ProfileReply(h, [pl[h] EXCEPT
                                !.code = ProfileCode(pl[h].op, "none")])
          /\ UNCHANGED <<pushes, nPush>>
     ELSE /\ pushes' = pushes \cup {[from |-> h] @@ IndexPayload(pl[h].candidate)}
          /\ nPush' = nPush + 1
          /\ ProfileGoto(h, "push_wait",
               [pl[h] EXCEPT !.calls = pl[h].calls + 1])
  /\ UNCHANGED <<candidates, cmu, searchURL, nOps>>
  /\ OthersUnchanged

\* client.Do returns: answered below 300, answered 300 or above, or an error
\* (the network's, or the client's timeout); the last two are logged only,
\* and the handler answers with the candidate the store returned
PushResult(h, outcome) ==
  /\ ppc[h] = "push_wait"
  /\ pushes' = {m \in pushes : m.from # h}
  /\ ProfileReply(h, [pl[h] EXCEPT
                        !.outcome = outcome,
                        !.code = ProfileCode(pl[h].op, outcome)])
  /\ UNCHANGED <<candidates, cmu, searchURL, nPush, nOps>>
  /\ OthersUnchanged

\* store.Get: s.mu.RLock()
ProfileGetLock(h) ==
  /\ ppc[h] = "get_lock"
  /\ cmu.writer = NoHandler
  /\ cmu' = [cmu EXCEPT !.readers = @ \cup {h}]
  /\ ProfileGoto(h, "get_body", pl[h])
  /\ UNCHANGED <<candidates, searchURL, pushes, nPush, nOps>>
  /\ OthersUnchanged

\* store.Get: the read, the deferred RUnlock, and the handler's answer
ProfileGetBody(h) ==
  /\ ppc[h] = "get_body"
  /\ cmu' = [cmu EXCEPT !.readers = @ \ {h}]
  /\ LET got == CandidateGet(candidates, pl[h].candidate.ID)
     IN IF got.ok
        THEN ProfileReply(h, [pl[h] EXCEPT !.candidate = got.candidate,
                                           !.ok = TRUE,
                                           !.code = StatusOK])
        ELSE ProfileReply(h, [pl[h] EXCEPT !.code = StatusNotFound])
  /\ UNCHANGED <<candidates, searchURL, pushes, nPush, nOps>>
  /\ OthersUnchanged

\* store.List: s.mu.RLock()
ListLock(h) ==
  /\ ppc[h] = "list_lock"
  /\ cmu.writer = NoHandler
  /\ cmu' = [cmu EXCEPT !.readers = @ \cup {h}]
  /\ ProfileGoto(h, "list_body", pl[h])
  /\ UNCHANGED <<candidates, searchURL, pushes, nPush, nOps>>
  /\ OthersUnchanged

\* store.List: the loop over the map, the deferred RUnlock, and the answer
ListBody(h) ==
  /\ ppc[h] = "list_body"
  /\ cmu' = [cmu EXCEPT !.readers = @ \ {h}]
  /\ \E q \in CandidateList(candidates) :
       ProfileReply(h, [pl[h] EXCEPT !.list = q, !.ok = TRUE,
                                     !.code = StatusOK])
  /\ UNCHANGED <<candidates, searchURL, pushes, nPush, nOps>>
  /\ OthersUnchanged

\* the ids clients name in /candidates/{id}: none, one of their own, and the
\* ids the service has handed out
ProfilePathIDs == {EmptyString, ClientID} \cup DOMAIN candidates

\* the requests clients send to /candidates
CandidatesRequests ==
  {<<m, TRUE, r>> : m \in ProfileMethods, r \in ProfileInputs}
    \cup {<<"POST", FALSE, CandidateRequest(EmptyString, <<>>, EmptyString)>>}

\* the requests clients send to /candidates/{id}
CandidateRequests ==
  {<<id, m, TRUE, r>> : id \in ProfilePathIDs, m \in ProfileMethods,
                        r \in ProfileInputs}
    \cup {<<ClientID, "PUT", FALSE,
            CandidateRequest(EmptyString, <<>>, EmptyString)>>}

NextProfile ==
  \/ Tick
  \/ \E h \in Handlers :
       \/ \E q \in CandidatesRequests :
            Receive(CandidatesRecv(h, q[1], q[2], q[3]))
       \/ \E q \in CandidateRequests :
            Receive(CandidateRecv(h, q[1], q[2], q[3], q[4]))
       \/ StoreLock(h)
       \/ StoreBody(h)
       \/ PushOpen(h)
       \/ \E o \in PushOutcomes : PushResult(h, o)
       \/ ProfileGetLock(h)
       \/ ProfileGetBody(h)
       \/ ListLock(h)
       \/ ListBody(h)

SpecProfile == InitProfile /\ [][NextProfile]_vars

(***************************************************************************)
(* The candidate-profile service pushing to the search service: every POST *)
(* /index the one sends is received, handled and answered by the other.    *)
(***************************************************************************)
\* the candidate the /index handler decodes from the payload m
Decoded(m) == CandidateIndex(m.id, m.name, m.skills, m.readiness_status)

\* the search service receives handler h's POST /index and runs its /index
\* handler on it: the id test, store.Upsert under the write lock, 204
PushDeliver(h) ==
  /\ ppc[h] = "push_wait"
  /\ imu.writer = NoHandler /\ imu.readers = {}
  /\ \E m \in pushes :
       /\ m.from = h
       /\ pushes' = pushes \ {m}
       /\ IF Decoded(m).ID = EmptyString
          THEN /\ iresp' = [IdleIndexLocals EXCEPT !.op = "index",
                                                   !.candidate = Decoded(m),
                                                   !.code = StatusBadRequest]
               /\ UNCHANGED <<items, lastLocked, completed, replaced,
                              rewritten>>
          ELSE /\ items' = Upsert(items, Decoded(m))
               /\ lastLocked' = Put(lastLocked, m.id, Decoded(m))
               /\ completed' = Put(completed, m.id, Decoded(m))
               /\ replaced' = IF m.id \in DOMAIN items
                              THEN replaced \cup {m.id} ELSE replaced
               /\ rewritten' =
                    IF m.id \in DOMAIN completed /\ completed[m.id] = Decoded(m)
                    THEN rewritten \cup {m.id} ELSE rewritten
               /\ iresp' = [IdleIndexLocals EXCEPT !.op = "index",
                                                   !.candidate = Decoded(m),
                                                   !.code = StatusNoContent]
  /\ presp' = NoProfileResponse
  /\ UNCHANGED <<imu, ipc, il, candidates, cmu, searchURL, ppc, pl, nPush,
                 nOps>>
  /\ WorkflowUnchanged

\* client.Do returns the answer of the search service to handler h's push
PushAnswered(h) ==
  /\ \A m \in pushes : m.from # h
  /\ PushResult(h, "ok")

\* the candidate-profile service with SEARCH_URL set to the search service
InitPipeline ==
  /\ Started
  /\ chatURL = EmptyString
  /\ searchURL = "http://search"

NextPipeline ==
  \/ Tick
  \/ \E h \in Handlers :
       \/ \E q \in CandidatesRequests :
            Receive(CandidatesRecv(h, q[1], q[2], q[3]))
       \/ \E q \in CandidateRequests :
            Receive(CandidateRecv(h, q[1], q[2], q[3], q[4]))
       \/ StoreLock(h)
       \/ StoreBody(h)
       \/ PushOpen(h)
       \/ PushDeliver(h)
       \/ PushAnswered(h)

SpecPipeline == InitPipeline /\ [][NextPipeline]_vars

(***************************************************************************)
(* Steps, as the claims name them.                                         *)
(***************************************************************************)
\* handler h leaves store.Update (the write and the unlock)
UpdateStep(h) == pc[h] = "update_body" /\ pc'[h] # "update_body"
\* handler h sends POST /sessions
ChatIssueStep(h) == pc[h] = "chat" /\ pc'[h] = "chat_wait"
\* a request is answered as it is received, before any store access
RefusedStep == nOps' # nOps /\ pc' = pc
\* the last step answered a respond whose body decoded
Responded == resp.op = "respond" /\ resp.raw # EmptyString

(***************************************************************************)
(* C1: the status of a request changes only from pending to confirmed,     *)
(* rejected or no_response, and no respond call changes a status that is   *)
(* already terminal (a status is mutated at most once).                    *)
(***************************************************************************)
C1_StatusMutatedAtMostOnce ==
  [][\A id \in DOMAIN requests :
       (nCreated' = nCreated /\ requests'[id].Status # requests[id].Status)
         => /\ requests[id].Status = Pending
            /\ requests'[id].Status \in Terminal]_vars

(***************************************************************************)
(* C2: respond(id, s) on a known id with a valid terminal s succeeds       *)
(* whatever the stored status is, pending or terminal, and leaves s (lower *)
(* case) as the stored status and in the response.                         *)
(***************************************************************************)
C2_RespondOverwrites ==
  [][\A h \in Handlers :
       (UpdateStep(h) /\ l[h].id \in DOMAIN requests)
         => /\ requests'[l[h].id].Status = ToLower(l[h].raw)
            /\ pc'[h] = "chat"
                 => /\ l'[h].ok
                    /\ l'[h].request.Status = ToLower(l[h].raw)
            /\ pc'[h] = "idle"
                 => /\ resp'.code = StatusOK
                    /\ resp'.request.Status = ToLower(l[h].raw)]_vars

\* a request created once, confirmed, and then rejected by a respond that
\* is answered 200
C2_Witness ==
  /\ resp.op = "respond" /\ resp.code = StatusOK /\ resp.status = Rejected
  /\ nCreated = 1 /\ resp.id \in everConfirmed
  /\ requests[resp.id].Status = Rejected

(***************************************************************************)
(* C3: respond(id, "confirmed") on a known id stores status confirmed, and *)
(* no step of the chat call (sending it, its 2xx, its non-2xx, its network *)
(* error, its timeout) changes the Request Store.                          *)
(***************************************************************************)
C3_ChatNeverAltersStatus ==
  [][\A h \in Handlers :
       /\ (UpdateStep(h) /\ l[h].id \in DOMAIN requests
             /\ ToLower(l[h].raw) = Confirmed)
            => requests'[l[h].id].Status = Confirmed
       /\ (pc[h] \in {"chat", "chat_wait"} /\ pc'[h] # pc[h])
            => requests' = requests]_vars

\* a respond-confirmed whose chat call timed out, the store still confirmed
C3_Witness ==
  /\ resp.op = "respond" /\ resp.outcome = "timeout"
  /\ requests[resp.id].Status = Confirmed

(***************************************************************************)
(* C4: the caller of respond(id, "confirmed") on a known id is answered    *)
(* 200 with status confirmed for every outcome of the chat call.           *)
(***************************************************************************)
C4_ChatFailureNotSurfaced ==
  (Responded /\ resp.ok /\ ToLower(resp.raw) = Confirmed)
    => /\ resp.code = StatusOK
       /\ resp.request.Status = Confirmed

\* a respond-confirmed answered 200 after a network error of the chat call
C4_Witness ==
  /\ resp.op = "respond" /\ resp.outcome = "neterr"
  /\ resp.code = StatusOK /\ resp.request.Status = Confirmed

(***************************************************************************)
(* C5: a chat call is sent only by a respond handler whose new status is   *)
(* confirmed, after its store.Update has written confirmed under the id;   *)
(* respond with another status, create and get never send one.             *)
(***************************************************************************)
C5_ChatOnlyAfterConfirmedWrite ==
  [][nChat' # nChat =>
       \E h \in Handlers :
         /\ ChatIssueStep(h)
         /\ l[h].op = "respond"
         /\ ToLower(l[h].raw) = Confirmed
         /\ l[h].ok
         /\ l[h].id \in everConfirmed
         /\ l[h].request.Status = Confirmed]_vars

\* a chat call in flight
C5_Witness ==
  \E h \in Handlers :
    pc[h] = "chat_wait" /\ \E m \in inflight : m.from = h

(***************************************************************************)
(* C6: at the moment a chat call is sent for a request, the stored status  *)
(* of that request is confirmed, under any interleaving of respond calls.  *)
(***************************************************************************)
C6_ConfirmedWhenChatIssued ==
  [][\A h \in Handlers :
       ChatIssueStep(h) => requests[l[h].id].Status = Confirmed]_vars

(***************************************************************************)
(* C7: each respond call sends at most one chat call, a failed one is not  *)
(* sent again, and the chat calls ever sent are at most the respond calls  *)
(* that wrote confirmed.                                                   *)
(***************************************************************************)
C7_ChatAtMostOnce ==
  /\ nChat <= nConfirmed
  /\ resp.calls <= 1
  /\ \A h \in Handlers :
       /\ l[h].calls <= 1
       /\ Cardinality({m \in inflight : m.from = h}) <= 1
       /\ pc[h] = "chat" => l[h].calls = 0

\* a respond answered after its one chat call came back non-2xx
C7_Witness ==
  /\ resp.op = "respond" /\ resp.outcome = "non2xx" /\ resp.calls = 1
  /\ nChat = 1 /\ inflight = {}

C9_InvalidStatusRejected ==
  /\ [](/\ \A h \in Handlers :
             l[h].op = "respond" => ToLower(l[h].raw) \in Terminal
        /\ Responded =>
             /\ ToLower(resp.raw) \notin Terminal
                  => /\ resp.code = StatusBadRequest
                     /\ ~resp.ok /\ resp.calls = 0
             /\ ToLower(resp.raw) \in Terminal
                  => resp.code \in {StatusOK, StatusNotFound})
  /\ [][RefusedStep =>
          /\ requests' = requests
          /\ nChat' = nChat /\ inflight' = inflight]_vars

\* "bogus" answered 400 on a stored request that a "CONFIRMED" has confirmed
C9_Witness ==
  /\ resp.op = "respond" /\ resp.raw = Bogus /\ resp.code = StatusBadRequest
  /\ resp.id \in DOMAIN requests
  /\ \E g \in Handlers :
       /\ pc[g] \in {"chat", "chat_wait"} /\ l[g].raw = ConfirmedUpper
       /\ l[g].id = resp.id /\ requests[resp.id].Status = Confirmed

(***************************************************************************)
(* C10: two create calls never produce the same id, so the store holds as  *)
(* many requests as create calls have completed.                           *)
(***************************************************************************)
C10_RequestIdsUnique == Cardinality(DOMAIN requests) = nCreated

(***************************************************************************)
(* Further steps, as the claims name them.                                 *)
(***************************************************************************)
\* handler h leaves store.Create (the write and the unlock) and answers
CreateStep(h) == pc[h] = "create_body" /\ pc'[h] = "idle"
\* handler h reads the clock for ExpiresAt
ExpiresAtStep(h) == pc[h] = "create_lock" /\ pc'[h] = "create_body"
\* handler h leaves store.Get and answers
GetStep(h) == pc[h] = "get_body" /\ pc'[h] = "idle"
\* handler h receives the well-formed create body q
CreateRecvOf(h, q) ==
  CreateRecv(h, "POST", TRUE, q.recruiter_id, q.candidate_id,
             q.expires_in_days)

(***************************************************************************)
(* C11: create computes expiresAt as the clock reading plus expiresInDays  *)
(* days when expiresInDays > 0 and plus 7 days when expiresInDays <= 0, so *)
(* 0 and 7 at the same reading give the same expiresAt; a larger value is  *)
(* taken as it is.  The computed expiresAt is what is stored and returned. *)
(***************************************************************************)
C11_ExpiresAtComputed ==
  [][\A h \in Handlers :
       /\ \A q \in CreateInputs :
            CreateRecvOf(h, q) =>
              l'[h].days = IF q.expires_in_days > 0
                           THEN q.expires_in_days ELSE 7
       /\ ExpiresAtStep(h) =>
            l'[h].request.ExpiresAt[2] - now = l[h].days * TicksPerDay
       /\ CreateStep(h) =>
            /\ resp'.request.ExpiresAt = l[h].request.ExpiresAt
            /\ requests'[l[h].id].ExpiresAt = l[h].request.ExpiresAt]_vars

\* two creates answered at one clock reading, the stored one expiring 7
\* days after that reading (expires_in_days 0, -1 or 7), and the time never
\* having advanced
C11_Witness ==
  /\ resp.op = "create" /\ resp.code = StatusCreated
  /\ nCreated = 2 /\ now = 0
  /\ resp.request.ExpiresAt[2] = 7 * TicksPerDay
  /\ requests[resp.id].ExpiresAt = resp.request.ExpiresAt

(***************************************************************************)
(* C12: every create call stores a new request with status pending and the *)
(* caller's recruiterId and candidateId and returns it with 201; the       *)
(* stored request stays as created until a respond on its id, and a Get    *)
(* returns the stored request, or not-found for an id never created.       *)
(***************************************************************************)
C12_CreateThenGet ==
  [][/\ \A h \in Handlers :
          /\ \A q \in CreateInputs :
               CreateRecvOf(h, q) =>
                 /\ l'[h].request.RecruiterID = q.recruiter_id
                 /\ l'[h].request.CandidateID = q.candidate_id
                 /\ l'[h].request.Status = Pending
          /\ CreateStep(h) =>
               /\ l[h].id \notin DOMAIN requests
               /\ requests'[l[h].id] = l[h].request
               /\ resp'.code = StatusCreated
               /\ resp'.request = l[h].request
          /\ GetStep(h) =>
               IF l[h].id \in DOMAIN requests
               THEN resp'.code = StatusOK /\ resp'.request = requests[l[h].id]
               ELSE resp'.code = StatusNotFound
     /\ \A id \in DOMAIN requests :
          requests'[id] # requests[id] =>
            \E g \in Handlers : UpdateStep(g) /\ l[g].id = id]_vars

(***************************************************************************)
(* C13: a created request is never deleted and its id, recruiterId,        *)
(* candidateId and expiresAt never change; respond changes only the status *)
(* of the request it names and no other request.                           *)
(***************************************************************************)
C13_OnlyStatusChanges ==
  [][/\ \A id \in DOMAIN requests :
          /\ id \in DOMAIN requests'
          /\ requests'[id].ID = requests[id].ID
          /\ requests'[id].RecruiterID = requests[id].RecruiterID
          /\ requests'[id].CandidateID = requests[id].CandidateID
          /\ requests'[id].ExpiresAt = requests[id].ExpiresAt
     /\ \A h \in Handlers :
          UpdateStep(h) =>
            /\ DOMAIN requests' = DOMAIN requests
            /\ \A id \in DOMAIN requests \ {l[h].id} :
                 requests'[id] = requests[id]]_vars

RequestWriters == {h \in Handlers : pc[h] \in {"create_body", "update_body"}}
RequestReaders == {h \in Handlers : pc[h] = "get_body"}
IndexWriters == {h \in Handlers : ipc[h] = "upsert_body"}
IndexReaders == {h \in Handlers : ipc[h] = "search_loop"}

\* the last step answered a Search with its results
Searched == iresp.op = "search" /\ iresp.code = StatusOK
\* the candidates of a result sequence
ResultCandidates(results) ==
  {results[i].Candidate : i \in 1..Len(results)}
\* the lower-cased query skills
QuerySkills(q) == {ToLower(q.Skills[j]) : j \in 1..Len(q.Skills)}
\* the entries of c's skills, by position, that the query names
Matching(c, q) ==
  {i \in 1..Len(c.Skills) : ToLower(c.Skills[i]) \in QuerySkills(q)}
\* c passes the minimum-score filter of q
PassesScore(c, q) ==
  q.MinimumScore <= 0 \/ Cardinality(Matching(c, q)) >= q.MinimumScore
\* c's readiness equals the query's, case-insensitively
SameReadiness(c, q) ==
  ToLower(c.ReadinessStatus) = ToLower(q.ReadinessStatus)
\* the stored form of a candidate as it was sent
Stored(c) == [c EXCEPT !.ReadinessStatus = ToLower(@)]

(***************************************************************************)
(* C15: on the Request Store and on the Candidate Index, no handler is     *)
(* inside a write (Create, Update, Upsert) together with any other handler *)
(* inside a write or a read (Get, Search) of the same store; readers may   *)
(* be inside together.                                                     *)
(***************************************************************************)
C15_WriterExcludesAll ==
  /\ Cardinality(RequestWriters) <= 1
  /\ RequestWriters # {} => RequestReaders = {}
  /\ Cardinality(IndexWriters) <= 1
  /\ IndexWriters # {} => IndexReaders = {}
  /\ RequestWriters = {mu.writer} \ {NoHandler}
  /\ RequestReaders = mu.readers
  /\ IndexWriters = {imu.writer} \ {NoHandler}
  /\ IndexReaders = imu.readers

\* an Upsert inside the index lock while the Search of the other handler
\* waits at its RLock
C15_Witness ==
  \E h, g \in Handlers :
    /\ ipc[h] = "upsert_body" /\ imu.writer = h
    /\ ipc[g] = "search_lock" /\ g \notin imu.readers

(***************************************************************************)
(* C16: the index holds the effect of every Upsert that has returned, no   *)
(* entry changes while a Search is inside its read lock, and the results   *)
(* of a Search are computed from that one state of the index.              *)
(***************************************************************************)
C16_SearchSeesCompletedUpserts ==
  /\ [](/\ DOMAIN items = DOMAIN completed
        /\ \A id \in DOMAIN items : items[id] = Stored(completed[id])
        /\ Searched =>
             /\ ResultCandidates(iresp.results)
                  \subseteq {items[id] : id \in DOMAIN items}
             /\ \A id \in DOMAIN items :
                  (/\ iresp.request.ReadinessStatus = EmptyString
                   /\ PassesScore(items[id], iresp.request))
                    => items[id] \in ResultCandidates(iresp.results))
  /\ [][\A h \in Handlers :
          ipc[h] = "search_loop" => items' = items]_vars

\* a Search that returns the two candidates two finished Upserts stored
C16_Witness ==
  /\ Searched /\ Len(iresp.results) = 2
  /\ DOMAIN completed = {"c1", "c2"}

(***************************************************************************)
(* C17: the index holds one entry per id, and while no Upsert is inside    *)
(* the lock the entry of an id is that of the Upsert on the id that took   *)
(* the lock last: its name and its skills as sent, nothing kept of the     *)
(* entry it replaced.                                                      *)
(***************************************************************************)
C17_LastUpsertWins ==
  /\ \A id \in DOMAIN items : items[id].ID = id
  /\ \A id \in DOMAIN lastLocked :
       (\A h \in IndexWriters : il[h].candidate.ID # id)
         => /\ id \in DOMAIN items
            /\ items[id].Name = lastLocked[id].Name
            /\ items[id].Skills = lastLocked[id].Skills
            /\ items[id].ReadinessStatus
                 = ToLower(lastLocked[id].ReadinessStatus)

\* the entry of c1 written over by an Upsert with another name and with
\* skills that share nothing with the first
C17_Witness ==
  /\ iresp.op = "index" /\ iresp.code = StatusNoContent
  /\ iresp.candidate.ID = "c1" /\ "c1" \in replaced
  /\ items["c1"].Skills = <<SkillSQL>> /\ items["c1"].Name = "Ann B"

(***************************************************************************)
(* C18: every entry of the Candidate Index has a readinessStatus that is   *)
(* lower case and is verified or unverified.                               *)
(***************************************************************************)
C18_ReadinessInEnum ==
  \A id \in DOMAIN items :
    /\ items[id].ReadinessStatus = ToLower(items[id].ReadinessStatus)
    /\ items[id].ReadinessStatus \in {Verified, Unverified}

(***************************************************************************)
(* C19: a Search with an empty readinessStatus excludes no candidate on    *)
(* readiness; with a non-empty one every result has the query's readiness, *)
(* case-insensitively, and every such candidate that passes the            *)
(* minimum-score filter is in the results.                                 *)
(***************************************************************************)
C19_ReadinessFilter ==
  Searched =>
    LET q == iresp.request
        found == ResultCandidates(iresp.results)
    IN /\ q.ReadinessStatus = EmptyString =>
            \A id \in DOMAIN items :
              PassesScore(items[id], q) => items[id] \in found
       /\ q.ReadinessStatus # EmptyString =>
            /\ \A c \in found : SameReadiness(c, q)
            /\ \A id \in DOMAIN items :
                 (SameReadiness(items[id], q) /\ PassesScore(items[id], q))
                   => items[id] \in found

\* a Search for VERIFIED that returns the verified candidate and leaves out
\* the unverified one
C19_Witness ==
  /\ Searched /\ iresp.request.ReadinessStatus = VerifiedUpper
  /\ \E i \in 1..Len(iresp.results) :
       iresp.results[i].Candidate.ReadinessStatus = Verified
  /\ \E id \in DOMAIN items :
       /\ items[id].ReadinessStatus = Unverified
       /\ items[id] \notin ResultCandidates(iresp.results)
       /\ PassesScore(items[id], iresp.request)

(***************************************************************************)
(* C20: the score of a result is the number of entries of the candidate's  *)
(* skills, each occurrence counted, whose lower-cased form is among the    *)
(* lower-cased query skills; a skill repeated in the query adds nothing.   *)
(***************************************************************************)
C20_ScoreCountsOccurrences ==
  Searched =>
    \A i \in 1..Len(iresp.results) :
      iresp.results[i].Score
        = Cardinality(Matching(iresp.results[i].Candidate, iresp.request))

\* the candidate with skills Go, go scored 2 by the query GO, go
C20_Witness ==
  /\ Searched /\ iresp.request.Skills = <<SkillGoUpper, SkillGo>>
  /\ \E i \in 1..Len(iresp.results) :
       /\ iresp.results[i].Candidate.Skills = <<SkillGoMixed, SkillGo>>
       /\ iresp.results[i].Score = 2

(***************************************************************************)
(* Further steps of the search service, as the claims name them.           *)
(***************************************************************************)
\* handler h leaves store.Upsert (the write and the unlock) and answers
UpsertStep(h) == ipc[h] = "upsert_body" /\ ipc'[h] = "idle"
\* handler h receives the well-formed /index body c
IndexRecvOf(h, c) == IndexRecv(h, "POST", TRUE, c)
\* a step of a handler serving /search, or of one serving GET /requests/
SearchHandlerStep ==
  \/ iresp'.op = "search"
  \/ \E h \in Handlers :
       il'[h] # il[h] /\ (il[h].op = "search" \/ il'[h].op = "search")
GetHandlerStep ==
  \/ resp'.op = "get"
  \/ \E h \in Handlers :
       l'[h] # l[h] /\ (l[h].op = "get" \/ l'[h].op = "get")
\* the readiness values of the enum
ReadinessEnum == {Verified, Unverified}

(***************************************************************************)
(* C21: Search leaves a candidate out on score exactly when minimumScore   *)
(* is positive and the candidate's score is below it: with minimumScore    *)
(* <= 0 nobody is left out on score, a score of 0 included, and with       *)
(* minimumScore > 0 every result scores at least minimumScore.             *)
(***************************************************************************)
C21_MinimumScoreFilter ==
  Searched =>
    LET q == iresp.request
        found == ResultCandidates(iresp.results)
    IN /\ \A id \in DOMAIN items :
            (q.ReadinessStatus = EmptyString \/ SameReadiness(items[id], q))
              => (items[id] \notin found
                    <=> /\ q.MinimumScore > 0
                        /\ Cardinality(Matching(items[id], q))
                             < q.MinimumScore)
       /\ q.MinimumScore > 0 =>
            \A i \in 1..Len(iresp.results) :
              iresp.results[i].Score >= q.MinimumScore

\* minimumScore 2: the candidate scoring 2 is returned, the one scoring 1
\* is left out
C21_Witness ==
  /\ Searched /\ iresp.request.MinimumScore = 2
  /\ Len(iresp.results) = 1 /\ iresp.results[1].Score = 2
  /\ \E id \in DOMAIN items :
       Cardinality(Matching(items[id], iresp.request)) = 1

(***************************************************************************)
(* C22: the sequence Search returns is sorted by score, non-increasing:    *)
(* each result scores at least as much as the one after it.                *)
(***************************************************************************)
C22_SortedByScore ==
  Searched =>
    \A i \in 1..(Len(iresp.results) - 1) :
      iresp.results[i].Score >= iresp.results[i + 1].Score

\* two results of different scores, the higher first
C22_Witness ==
  /\ Searched /\ Len(iresp.results) = 2
  /\ iresp.results[1].Score > iresp.results[2].Score

(***************************************************************************)
(* C23: ties resolve to one order: a Search that has visited every entry   *)
(* has one sequence it can return, and two Searches with the same query on *)
(* the same index have the same one.                                       *)
(***************************************************************************)
C23_TiesDeterministic ==
  \A h, g \in Handlers :
    (/\ ipc[h] = "search_loop" /\ il[h].todo = {}
     /\ ipc[g] = "search_loop" /\ il[g].todo = {}
     /\ il[h].request = il[g].request)
      => /\ Cardinality(SortSlice(il[h].results)) = 1
         /\ SortSlice(il[h].results) = SortSlice(il[g].results)

(***************************************************************************)
(* C24: Upsert is idempotent: the same Upsert applied again to the index   *)
(* it has just written gives that index, and an Upsert of the candidate    *)
(* the last Upsert on the id stored leaves the index as it is.             *)
(***************************************************************************)
C24_UpsertIdempotent ==
  [][\A h \in Handlers :
       UpsertStep(h) =>
         /\ Upsert(items', il[h].candidate) = items'
         /\ (/\ il[h].candidate.ID \in DOMAIN completed
             /\ completed[il[h].candidate.ID] = il[h].candidate)
              => items' = items]_vars

\* the Upsert of c1 has been applied a second time
C24_Witness ==
  /\ iresp.op = "index" /\ iresp.code = StatusNoContent
  /\ iresp.candidate.ID = "c1" /\ "c1" \in rewritten
  /\ items["c1"] = Stored(iresp.candidate)

(***************************************************************************)
(* C25: a Search with the skills of a stored candidate c, an empty         *)
(* readinessStatus and minimumScore 0 returns c with a score equal to the  *)
(* length of c's skills, repeated skills counted each.                     *)
(***************************************************************************)
C25_OwnSkillsScoreLength ==
  (/\ Searched /\ iresp.request.ReadinessStatus = EmptyString
   /\ iresp.request.MinimumScore = 0)
    => \A id \in DOMAIN items :
         items[id].Skills = iresp.request.Skills
           => \E i \in 1..Len(iresp.results) :
                /\ iresp.results[i].Candidate = items[id]
                /\ iresp.results[i].Score = Len(items[id].Skills)

\* the candidate with skills Go, go found with score 2 by the query Go, go
C25_Witness ==
  /\ Searched /\ iresp.request.Skills = <<SkillGoMixed, SkillGo>>
  /\ iresp.request.MinimumScore = 0
  /\ \E i \in 1..Len(iresp.results) :
       /\ iresp.results[i].Candidate.Skills = iresp.request.Skills
       /\ iresp.results[i].Score = 2

(***************************************************************************)
(* C26: no step of a /search handler changes the Candidate Index, and no   *)
(* step of a GET /requests/{id} handler changes the Request Store.         *)
(***************************************************************************)
C26_ReadsChangeNothing ==
  [][/\ SearchHandlerStep => items' = items
     /\ GetHandlerStep => requests' = requests]_vars

\* a Search answered with the one entry of the index, the index as it was
C26_Witness ==
  /\ Searched /\ Len(iresp.results) = 1
  /\ DOMAIN items = {iresp.results[1].Candidate.ID}
  /\ items[iresp.results[1].Candidate.ID] = iresp.results[1].Candidate

(***************************************************************************)
(* C27: an /index request with an empty id is answered 400 and leaves the  *)
(* Candidate Index as it is; no entry of the index has an empty id.        *)
(***************************************************************************)
C27_EmptyIdRejected ==
  /\ [](/\ EmptyString \notin DOMAIN items
        /\ \A id \in DOMAIN items : items[id].ID # EmptyString
        /\ \A h \in Handlers :
             ipc[h] # "idle" /\ il[h].op = "index"
               => il[h].candidate.ID # EmptyString)
  /\ [][\A h \in Handlers : \A c \in IndexInputs :
          (c.ID = EmptyString /\ IndexRecvOf(h, c))
            => /\ iresp'.code = StatusBadRequest
               /\ ipc'[h] = "idle"
               /\ items' = items]_vars

\* an /index request without an id answered 400, the index holding an entry
C27_Witness ==
  /\ iresp.op = "index" /\ iresp.code = StatusBadRequest
  /\ iresp.candidate.ID = EmptyString /\ iresp.candidate.Name # EmptyString
  /\ DOMAIN items # {}

(***************************************************************************)
(* C28: an /index request whose readiness_status is not verified or        *)
(* unverified in any letter case is answered with a client error and       *)
(* leaves the Candidate Index as it is.                                    *)
(***************************************************************************)
C28_UnknownReadinessRejected ==
  [][\A h \in Handlers : \A c \in IndexInputs :
       (ToLower(c.ReadinessStatus) \notin ReadinessEnum /\ IndexRecvOf(h, c))
         => /\ iresp'.code = StatusBadRequest
            /\ ipc'[h] = "idle"
            /\ items' = items]_vars

(***************************************************************************)
(* C29: every respond call that has been received is answered: the chat    *)
(* call ends at the client's timeout if the chat service never answers,    *)
(* and a respond whose chat call timed out is answered 200 with status     *)
(* confirmed.                                                              *)
(***************************************************************************)
C29_RespondReturns ==
  /\ (pc[SerialHandler] # "idle" /\ l[SerialHandler].op = "respond")
       ~> (pc[SerialHandler] = "idle")
  /\ [](resp.outcome = "timeout"
          => /\ resp.op = "respond" /\ resp.code = StatusOK
             /\ resp.request.Status = Confirmed)

\* a respond answered 200 after its one chat call ran into the timeout
C29_Witness ==
  /\ resp.op = "respond" /\ resp.outcome = "timeout" /\ resp.calls = 1
  /\ resp.code = StatusOK /\ inflight = {}

\* handler h leaves CandidateStore.Upsert (the write and the unlock)
StoreStep(h) == ppc[h] = "store_body" /\ ppc'[h] = "push"
\* handler h sends POST /index
PushStep(h) == ppc[h] = "push" /\ ppc'[h] = "push_wait"
\* handler h leaves indexCandidate after client.Do and answers
PushedStep(h) == ppc[h] = "push_wait" /\ ppc'[h] = "idle"

(***************************************************************************)
(* C30: with SEARCH_URL set, a create or an update of a profile writes the *)
(* profile store and then issues exactly one POST /index carrying the id,  *)
(* name, skills and normalized readiness status of the candidate that      *)
(* write stored; whatever the outcome of the push, the store keeps the     *)
(* profile and the request is answered 201 (create) or 200 (update) with   *)
(* the stored candidate.                                                   *)
(***************************************************************************)
C30_OnePushAfterStore ==
  /\ [][\A h \in Handlers :
          /\ StoreStep(h) =>
               /\ pl[h].op \in {"create", "update"}
               /\ pl'[h].candidate.ID \in DOMAIN candidates'
               /\ candidates'[pl'[h].candidate.ID] = pl'[h].candidate
               /\ pl'[h].candidate.ReadinessStatus \in ReadinessEnum
               /\ pl'[h].calls = 0
          /\ (ppc[h] = "push" /\ ppc'[h] # "push" /\ searchURL # EmptyString)
               => PushStep(h)
          /\ PushStep(h) =>
               /\ searchURL # EmptyString
               /\ pl[h].ok /\ pl[h].calls = 0
               /\ nPush' = nPush + 1
               /\ pushes' \ pushes =
                    {[from |-> h,
                      id |-> pl[h].candidate.ID,
                      name |-> pl[h].candidate.Name,
                      skills |-> pl[h].candidate.Skills,
                      readiness_status |-> pl[h].candidate.ReadinessStatus]}
               /\ candidates' = candidates
          /\ PushedStep(h) =>
               /\ candidates' = candidates
               /\ nPush' = nPush
               /\ presp'.calls = 1
               /\ presp'.candidate = pl[h].candidate
               /\ presp'.code =
                    IF pl[h].op = "create" THEN StatusCreated ELSE StatusOK]_vars
  /\ [](\A h \in Handlers :
          ppc[h] \in {"push", "push_wait"} => pl[h].ok /\ pl[h].calls <= 1)

C30_Witness ==
  /\ searchURL # EmptyString
  /\ presp.op = "update" /\ presp.outcome = "err"
  /\ presp.calls = 1 /\ presp.code = StatusOK
  /\ presp.candidate.ReadinessStatus = Verified
  /\ presp.candidate.ID \in DOMAIN candidates
  /\ candidates[presp.candidate.ID] = presp.candidate
  /\ nPush = 1 /\ pushes = {}

\* entry c of the index survives the filters of query q
Survives(c, q) ==
  /\ q.ReadinessStatus = EmptyString \/ SameReadiness(c, q)
  /\ PassesScore(c, q)

(***************************************************************************)
(* C31: Search returns exactly the survivors, each once: the results hold  *)
(* one pair for every entry of the index that passes the readiness and the *)
(* minimum-score filter and none for any other, no candidate twice, each   *)
(* pair carrying the entry as stored; a decoded Search is answered 200,    *)
(* with the empty sequence when no entry survives.                         *)
(***************************************************************************)
C31_ExactlySurvivors ==
  /\ (iresp.op = "search" /\ iresp.code # StatusOK) => iresp.request = ZeroSearch
  /\ Searched =>
       LET q == iresp.request
           rs == iresp.results
           survivors == {id \in DOMAIN items : Survives(items[id], q)}
       IN /\ Len(rs) = Cardinality(survivors)
          /\ \A i \in 1..Len(rs) :
               /\ rs[i].Candidate.ID \in survivors
               /\ rs[i].Candidate = items[rs[i].Candidate.ID]
          /\ \A i, j \in 1..Len(rs) :
               i # j => rs[i].Candidate.ID # rs[j].Candidate.ID
          /\ \A id \in survivors : \E i \in 1..Len(rs) : rs[i].Candidate.ID = id
          /\ survivors = {} => rs = <<>>

\* an index of two entries, one of which survives and is the one result
C31_Witness ==
  /\ Searched /\ Cardinality(DOMAIN items) = 2
  /\ Len(iresp.results) = 1
  /\ \E id \in DOMAIN items : ~Survives(items[id], iresp.request)

(***************************************************************************)
(* C32: with no query skills every result scores 0; Search then returns    *)
(* every entry that passes the readiness filter when minimumScore <= 0 and *)
(* the empty sequence when minimumScore > 0.                               *)
(***************************************************************************)
C32_EmptyQuerySkills ==
  (Searched /\ iresp.request.Skills = <<>>) =>
    LET q == iresp.request
        rs == iresp.results
    IN /\ \A i \in 1..Len(rs) : rs[i].Score = 0
       /\ q.MinimumScore <= 0 =>
            ResultCandidates(rs) =
              {items[id] : id \in
                 {x \in DOMAIN items :
                    q.ReadinessStatus = EmptyString
                      \/ SameReadiness(items[x], q)}}
       /\ q.MinimumScore > 0 => rs = <<>>

\* no query skills, readiness verified, minimumScore 0: the verified entry
\* is returned with score 0 and the other entry is left out
C32_Witness ==
  /\ Searched /\ iresp.request.Skills = <<>>
  /\ iresp.request.MinimumScore = 0
  /\ Len(iresp.results) = 1 /\ iresp.results[1].Score = 0
  /\ Cardinality(DOMAIN items) = 2

(***************************************************************************)
(* C33: the score of a result is the number of distinct lower-cased query  *)
(* skills found among the candidate's skills, so it never exceeds the      *)
(* number of distinct lower-cased query skills.                            *)
(***************************************************************************)
C33_ScoreCountsQuerySkills ==
  Searched =>
    LET q == iresp.request
    IN \A i \in 1..Len(iresp.results) :
         LET c == iresp.results[i].Candidate
         IN /\ iresp.results[i].Score =
                 Cardinality({s \in QuerySkills(q) :
                                \E j \in 1..Len(c.Skills) :
                                  ToLower(c.Skills[j]) = s})
            /\ iresp.results[i].Score <= Cardinality(QuerySkills(q))

\* the four values of an InterviewRequest's status
StatusEnum == {Pending} \cup Terminal

(***************************************************************************)
(* C34: the stored status of every request is one of pending, confirmed,   *)
(* rejected, no_response, in lower case; a respond that is answered 200    *)
(* wrote the lower-cased form of the status it was sent.                   *)
(***************************************************************************)
C34_StoredStatusInEnum ==
  /\ \A id \in DOMAIN requests : requests[id].Status \in StatusEnum
  /\ (Responded /\ resp.code = StatusOK) =>
       /\ resp.status = ToLower(resp.raw)
       /\ resp.request.Status = ToLower(resp.raw)

\* a respond sent CONFIRMED, answered 200, with confirmed stored
C34_Witness ==
  /\ Responded /\ resp.code = StatusOK /\ resp.raw = ConfirmedUpper
  /\ resp.id \in DOMAIN requests
  /\ requests[resp.id].Status = Confirmed

\* handler h receives a decoded POST /requests/{id}/respond with status raw
RespondRecvOf(h, id, raw) == RespondRecv(h, id, "POST", TRUE, raw)

(***************************************************************************)
(* C38: respond validates the status before it looks the id up: a decoded  *)
(* respond with an invalid status is answered 400 whether or not the id is *)
(* known, and a respond answered 400 or 404 leaves the Request Store as it *)
(* was.                                                                    *)
(***************************************************************************)
C38_StatusBeforeLookup ==
  [][/\ \A h \in Handlers, id \in PathIDs, raw \in StatusInputs :
          (RespondRecvOf(h, id, raw) /\ InvalidStatus(ToLower(raw)))
            => /\ resp'.code = StatusBadRequest
               /\ requests' = requests
     /\ (resp'.op = "respond"
           /\ resp'.code \in {StatusBadRequest, StatusNotFound})
          => requests' = requests]_vars

\* an invalid status on an unknown id, answered 400
C38_Witness ==
  /\ resp.op = "respond" /\ resp.id = UnknownID /\ resp.raw = Bogus
  /\ resp.code = StatusBadRequest
  /\ UnknownID \notin DOMAIN requests

(***************************************************************************)
(* C35: a chat call carries the candidate and the recruiter of the request *)
(* its respond confirmed: when the call is sent the Request Store holds a  *)
(* request under the id of the respond, Update has written confirmed under *)
(* that id, and the call names the CandidateID and RecruiterID of that     *)
(* request; every call in flight names the pair of some stored request     *)
(* that has been confirmed.                                                *)
(***************************************************************************)
C35_ChatNamesConfirmedRequest ==
  /\ [][\A h \in Handlers :
          ChatIssueStep(h) =>
            /\ l[h].id \in DOMAIN requests
            /\ l[h].id \in everConfirmed
            /\ inflight' \ inflight =
                 {[from |-> h,
                   candidate_id |-> requests[l[h].id].CandidateID,
                   recruiter_id |-> requests[l[h].id].RecruiterID]}]_vars
  /\ [](\A m \in inflight :
          \E id \in DOMAIN requests \cap everConfirmed :
            /\ requests[id].CandidateID = m.candidate_id
            /\ requests[id].RecruiterID = m.recruiter_id)

\* handler h is between a Lock or RLock of the Request Store and its unlock
InStore(h) == pc[h] \in {"create_body", "get_body", "update_body"}

(***************************************************************************)
(* C36: a respond handler holds no lock of the Request Store from its      *)
(* store.Update to its answer: while it waits for the chat service, a      *)
(* create, get or respond of another handler that is at its Lock or RLock  *)
(* can take it, unless a third handler is inside the store.                *)
(***************************************************************************)
C36_NoLockOverChat ==
  \A h \in Handlers :
    pc[h] \in {"chat", "chat_wait"} =>
      /\ mu.writer # h /\ h \notin mu.readers
      /\ \A g \in Handlers \ {h} :
           (\A k \in Handlers \ {h, g} : ~InStore(k)) =>
             /\ pc[g] = "create_lock" => ENABLED CreateLock(g)
             /\ pc[g] = "get_lock" => ENABLED GetLock(g)
             /\ pc[g] = "update_lock" => ENABLED UpdateLock(g)

\* one handler waits for the chat service while another is inside
\* store.Update with the write lock
C36_Witness ==
  \E h, g \in Handlers :
    /\ pc[h] = "chat_wait" /\ (\E m \in inflight : m.from = h)
    /\ pc[g] = "update_body" /\ mu.writer = g

(***************************************************************************)
(* C37: a respond that is answered 200 reports the status it wrote, read   *)
(* under the write lock of its own store.Update, whatever the store holds  *)
(* by the time it answers; the stored status under an id changes only in   *)
(* the step that leaves a store write under that id, and after a           *)
(* store.Update it is the status of that call, so the writer that took the *)
(* lock last decides the stored status.                                    *)
(***************************************************************************)
C37_ResponseCarriesOwnStatus ==
  /\ [][/\ \A h \in Handlers :
             (UpdateStep(h) /\ l[h].id \in DOMAIN requests) =>
               /\ requests'[l[h].id].Status = l[h].status
               /\ pc'[h] = "chat" => l'[h].request.Status = l[h].status
               /\ pc'[h] = "idle" => resp'.request.Status = l[h].status
        /\ \A id \in DOMAIN requests :
             requests'[id].Status # requests[id].Status =>
               \E h \in Handlers :
                 /\ l[h].id = id
                 /\ \/ UpdateStep(h) /\ requests'[id].Status = l[h].status
                    \/ CreateStep(h)]_vars
  /\ []((Responded /\ resp.code = StatusOK) =>
          /\ resp.status = ToLower(resp.raw)
          /\ resp.request.Status = resp.status)

\* a respond answered 200 with confirmed after another respond on the same
\* id has stored rejected
C37_Witness ==
  /\ Responded /\ resp.code = StatusOK
  /\ resp.request.Status = Confirmed
  /\ resp.id \in DOMAIN requests
  /\ requests[resp.id].Status = Rejected

\* no profile handler is at work and no push is on its way
Quiescent == (\A h \in Handlers : ppc[h] = "idle") /\ pushes = {}

(***************************************************************************)
(* C39: once every create and update of the candidate-profile service has  *)
(* been answered, every push having been handled and answered by the       *)
(* search service, the index has under each id of the profile store an     *)
(* entry with the name, skills and readiness status the profile store      *)
(* holds under it.                                                         *)
(***************************************************************************)
C39_IndexConverges ==
  Quiescent =>
    \A id \in DOMAIN candidates :
      /\ id \in DOMAIN items
      /\ items[id].Name = candidates[id].Name
      /\ items[id].Skills = candidates[id].Skills
      /\ items[id].ReadinessStatus = candidates[id].ReadinessStatus

====
